---- MODULE Spec2Model ----
(***************************************************************************)
(* A model of the per-document vector store of redink                      *)
(* (src-tauri/src/vector_store.rs): the Tauri commands add_chunks, search, *)
(* has_document, delete_document, clear_all and get_count acting on the    *)
(* tables of one storage root.  Every command is one action; the storage   *)
(* backend (LanceDB) and the Arrow constructors the commands call are      *)
(* modelled by what they do at the call sites.  SpecRace runs the commands *)
(* of several callers step by step, a step per call of the storage         *)
(* backend; SpecInit adds initialize and the path it records; SpecIngest   *)
(* runs two add_chunks calls on one table and its temporary file;          *)
(* SpecName calls the commands on every short document id.  The second     *)
(* part models src-tauri/src/arxiv.rs: format_category (SpecCategory) and  *)
(* parse_arxiv_xml, an action per event of the reader (SpecFeed,           *)
(* SpecPaperId).                                                           *)
(***************************************************************************)
EXTENDS Integers, Sequences, FiniteSets, TLC

VARIABLES
    tables,     \* the storage root: table name -> [dim, rows], for the tables that exist
    written,    \* history: table name -> the document id and chunk list of the latest
                \* successful add_chunks for that table, NoWrite once a later
                \* add_chunks failed on the table or the table was dropped
    last,       \* the latest command: its arguments, the result it returned, and
                \* the tables that existed when it was called
    db_path,    \* VectorStoreState.db_path: None, or the path initialize recorded
    calls,      \* the commands in flight, one per caller (SpecRace, SpecIngest)
    temp_files, \* the temporary files in the storage root: the table name n of
                \* temp_<n>.arrow -> the batch the file holds
    arxiv       \* arxiv.rs: the call of format_category or parse_arxiv_xml under
                \* way, its argument, its local variables and its result

vars == <<tables, written, last, db_path, calls, temp_files, arxiv>>

(***************************************************************************)
(* Bounds of the model.                                                    *)
(***************************************************************************)
MaxChunks == 2      \* longest chunk list passed to add_chunks (Spec)
MaxRootChunks == 1  \* longest chunk list passed to add_chunks (SpecRoot)
MaxTopK == 3        \* largest top_k passed to search
MaxBatchRows == 2   \* the result stream delivers batches of 1..MaxBatchRows rows
MaxStreamRows == 2  \* longest result stream converted (SpecScore)
MaxExpSpan == 1     \* binary exponents of the converted distances, around each anchor
MaxMixedChunks == 3 \* longest chunk list passed to add_chunks (SpecMixed)
MaxIdLen == 2       \* longest document id passed to the commands (SpecName)
MaxCodeLen == 3     \* longest category code made of CodeChars (SpecCategory)
MaxEntries == 2     \* most entries of a feed (SpecFeed)

(***************************************************************************)
(* f32.  score and distance are f32 (VectorSearchResult); a non-negative   *)
(* finite f32 is [m, e], the value m * 2^e with a SigBits-bit significand  *)
(* Half <= m < Full, or m = 0 for zero.  Arithmetic rounds to nearest,     *)
(* ties to even, as IEEE-754 binary32 does.                                *)
(***************************************************************************)
SigBits == 24
Half == 2 ^ (SigBits - 1)
Full == 2 ^ SigBits

F32Zero == [m |-> 0, e |-> 0]
F32One == [m |-> Half, e |-> 1 - SigBits]

RECURSIVE F32Norm(_, _)
\* the f32 of the integer-significand value m * 2^e, 0 <= m < Full (exact)
F32Norm(m, e) ==
    IF m = 0 THEN F32Zero
    ELSE IF m < Half THEN F32Norm(2 * m, e - 1)
    ELSE [m |-> m, e |-> e]

\* the f32 of a small non-negative integer (exact below 2^24)
F32FromInt(n) == F32Norm(n, 0)

\* a significand that rounding carried up to Full is renormalised
F32Carry(m, e) == IF m = Full THEN [m |-> Half, e |-> e + 1] ELSE [m |-> m, e |-> e]

\* 1 when the bits shifted out (rem of a 2^k) round the kept significand q up
RoundUp(q, rem, k) ==
    LET half == 2 ^ (k - 1)
    IN  IF rem > half \/ (rem = half /\ q % 2 = 1) THEN 1 ELSE 0

\* 1.0 + d
F32AddOne(d) ==
    IF d.m = 0 THEN F32One
    ELSE IF d.e >= 2 THEN d
    ELSE IF d.e = 1 THEN F32Carry(d.m + (d.m % 2), 1)
    ELSE IF d.e >= 1 - SigBits
    THEN LET n == d.m + 2 ^ (0 - d.e)
         IN  IF n < Full THEN [m |-> n, e |-> d.e]
             ELSE F32Carry((n \div 2) + RoundUp(n \div 2, n % 2, 1), d.e + 1)
    ELSE LET k == (1 - SigBits) - d.e
         IN  IF k > SigBits THEN F32One
             ELSE LET q == Half + (d.m \div (2 ^ k))
                  IN  F32Carry(q + RoundUp(q, d.m % (2 ^ k), k), 1 - SigBits)

\* bits more quotient bits of the division by m, from quotient and remainder
\* qr (r * 2^bits stays below 2^31 for bits <= 7)
LongDiv(qr, m, bits) ==
    <<qr[1] * 2 ^ bits + ((qr[2] * 2 ^ bits) \div m), (qr[2] * 2 ^ bits) % m>>

\* the SigBits-bit quotient 2^(2 * SigBits - 1) / m and its remainder, Half < m < Full
Quotient(m) ==
    LongDiv(LongDiv(LongDiv(LongDiv(<<1, Full - m>>, m, 7), m, 7), m, 7), m, SigBits - 22)

\* 1.0 / x, x > 0
F32Recip(x) ==
    IF x.m = Half THEN [m |-> Half, e |-> 0 - x.e - 2 * (SigBits - 1)]
    ELSE LET qr == Quotient(x.m)
             up == IF 2 * qr[2] > x.m \/ (2 * qr[2] = x.m /\ qr[1] % 2 = 1) THEN 1 ELSE 0
         IN  F32Carry(qr[1] + up, 0 - x.e - (2 * SigBits - 1))

\* Score with a fault: the sum without the reciprocal
ScoreNoReciprocal(distance) == F32AddOne(distance)

\* let score = 1.0 / (1.0 + distance);
Score(distance) == F32Recip(F32AddOne(distance))

F32Less(a, b) ==
    IF b.m = 0 THEN FALSE
    ELSE IF a.m = 0 THEN TRUE
    ELSE a.e < b.e \/ (a.e = b.e /\ a.m < b.m)

F32Leq(a, b) == a = b \/ F32Less(a, b)


(***************************************************************************)
(* Document identifiers and chunk records.  A string is the sequence of    *)
(* its characters, so that the table name is computed character by         *)
(* character as String::replace does.                                      *)
(***************************************************************************)
Alphanumeric == {"a", "b", "c", "d", "e", "o", "x", "A", "Z", "0", "1", "2", "9"}

\* char::is_alphanumeric
is_alphanumeric(c) == c \in Alphanumeric

\* "doc-1" and "doc_1" differ in punctuation only; "doc2" is another document
DocIds == { <<"d", "o", "c", "-", "1">> }
RootDocIds == DocIds \cup { <<"d", "o", "c", "_", "1">>, <<"d", "o", "c", "2">> }

\* TableName with a fault: the characters that are not alphanumeric are left out
TableNameStripped(document_id) ==
    <<"d", "o", "c", "_">> \o SelectSeq(document_id, is_alphanumeric)

\* TableName with a fault: the prefix and the id as it is, no character replaced
TableNameKeep(document_id) == <<"d", "o", "c", "_">> \o document_id

\* format!("doc_{}", document_id.replace(|c: char| !c.is_alphanumeric(), "_"))
TableName(document_id) ==
    <<"d", "o", "c", "_">> \o
        [i \in 1..Len(document_id) |->
            IF is_alphanumeric(document_id[i]) THEN document_id[i] ELSE "_"]

TableNames == {TableName(d) : d \in RootDocIds}

\* struct ChunkData
ChunkData(id, text, vector, chunk_index, text_length) ==
    [id |-> id, text |-> text, vector |-> vector,
     chunk_index |-> chunk_index, text_length |-> text_length]

ChunkPool ==
    { ChunkData("a", "alpha", <<1, 0>>, 0, 5),
      ChunkData("b", "beta", <<0, 1>>, 1, 4),
      ChunkData("a", "gamma", <<1, 1>>, 2, 5) }

ChunkLists == UNION {[1..n -> ChunkPool] : n \in 0..MaxChunks}
RootChunkPool == {c \in ChunkPool : c.vector[2] = 0 \/ c.vector[1] = 0}
RootChunkLists == UNION {[1..n -> RootChunkPool] : n \in 0..MaxRootChunks}

\* chunk records whose vectors have different lengths
MixedChunkPool ==
    { ChunkData("a", "alpha", <<1, 0>>, 0, 5),
      ChunkData("b", "beta", <<0>>, 1, 4),
      ChunkData("c", "gamma", <<1, 1, 0>>, 2, 5) }

MixedChunkLists == UNION {[1..n -> MixedChunkPool] : n \in 0..MaxMixedChunks}

\* the dimensionality of the table made from an empty chunk list
DefaultDim == 384

Queries == { <<1, 0>>, <<0, 0>>, [i \in 1..DefaultDim |-> 0] }
RootQueries == { <<1, 0>> }

TopKs == 1..MaxTopK

(***************************************************************************)
(* The batch encoder of add_chunks.                                        *)
(***************************************************************************)
RECURSIVE Flatten(_)
\* for chunk in &chunks { vector_values.extend_from_slice(&chunk.vector); }
Flatten(chunks) ==
    IF chunks = <<>> THEN <<>> ELSE Head(chunks).vector \o Flatten(Tail(chunks))

\* VectorDim with a fault: no default dimensionality for an empty chunk list
VectorDimNoDefault(chunks) == IF chunks = <<>> THEN 0 ELSE Len(chunks[1].vector)

\* let vector_dim = if chunks.is_empty() { 384 } else { chunks[0].vector.len() as i32 };
VectorDim(chunks) == IF chunks = <<>> THEN DefaultDim ELSE Len(chunks[1].vector)

\* FixedSizeListArray::try_new: the list holds values.len() / size vectors,
\* the i-th one the i-th slice of size values
ListLen(values, size) == IF size = 0 THEN 0 ELSE Len(values) \div size

ListValue(values, size, i) == SubSeq(values, (i - 1) * size + 1, i * size)

\* EncodeBatch with a fault: when the vector column is shorter than the
\* other columns, the rows it has vectors for are kept
EncodeBatchTruncating(chunks) ==
    LET dim == VectorDim(chunks)
        values == Flatten(chunks)
        n == IF ListLen(values, dim) < Len(chunks) THEN ListLen(values, dim) ELSE Len(chunks)
    IN  [ok |-> TRUE, err |-> "", dim |-> dim,
         rows |-> [i \in 1..n |->
                     [id |-> chunks[i].id,
                      text |-> chunks[i].text,
                      vector |-> ListValue(values, dim, i),
                      chunk_index |-> chunks[i].chunk_index,
                      text_length |-> chunks[i].text_length]]]

\* The five columns and RecordBatch::try_new, which refuses columns of
\* different lengths.  rows: the batch, row by row.
EncodeBatch(chunks) ==
    LET dim == VectorDim(chunks)
        values == Flatten(chunks)
    IN  IF ListLen(values, dim) # Len(chunks)
        THEN [ok |-> FALSE, err |-> "Failed to create record batch", dim |-> dim, rows |-> <<>>]
        ELSE [ok |-> TRUE, err |-> "", dim |-> dim,
              rows |-> [i \in 1..Len(chunks) |->
                          [id |-> chunks[i].id,
                           text |-> chunks[i].text,
                           vector |-> ListValue(values, dim, i),
                           chunk_index |-> chunks[i].chunk_index,
                           text_length |-> chunks[i].text_length]]]

(***************************************************************************)
(* The storage backend at the call sites: a root is a function from the    *)
(* names of its tables to [dim, rows].                                     *)
(***************************************************************************)
NoTables == [n \in {} |-> 0]

Restrict(f, S) == [x \in S |-> f[x]]

\* DropTable with a fault: dropping a table that does not exist succeeds
DropTableLenient(tbls, name) ==
    [ok |-> TRUE, tables |-> [n \in DOMAIN tbls \ {name} |-> tbls[n]]]

\* db.drop_table(&table_name): an error when the table does not exist
DropTable(tbls, name) ==
    IF name \in DOMAIN tbls
    THEN [ok |-> TRUE, tables |-> Restrict(tbls, DOMAIN tbls \ {name})]
    ELSE [ok |-> FALSE, tables |-> tbls]

\* db.create_table(&table_name, reader).execute(): an error when the table exists
CreateTable(tbls, name, dim, rows) ==
    IF name \in DOMAIN tbls
    THEN [ok |-> FALSE, tables |-> tbls]
    ELSE [ok |-> TRUE,
          tables |-> [n \in DOMAIN tbls \cup {name} |->
                        IF n = name THEN [dim |-> dim, rows |-> rows] ELSE tbls[n]]]

\* db.table_names().execute(): the names of the root's tables, as a sequence
RECURSIVE Listing(_)
Listing(S) ==
    IF S = {} THEN <<>>
    ELSE LET n == CHOOSE x \in S : TRUE IN <<n>> \o Listing(S \ {n})

TableNamesOf(tbls) == Listing(DOMAIN tbls)

Contains(seq, x) == \E i \in 1..Len(seq) : seq[i] = x

RECURSIVE SqDist(_, _)
SqDist(q, v) ==
    IF q = <<>> THEN 0
    ELSE (Head(q) - Head(v)) * (Head(q) - Head(v)) + SqDist(Tail(q), Tail(v))

\* the _distance column of a nearest_to query with the default (L2) distance
\* type: LanceDB reports the squared Euclidean distance, as an f32
Distance(q, v) == F32FromInt(SqDist(q, v))

\* the rows a nearest_to(q).limit(k) query returns, given the distance d[r]
\* of every row r: min(k, n) different rows, closest first, no row left out
\* that is closer than a returned one; rows at the same distance come in an
\* order the backend chooses
Nearest(d, k) ==
    LET n == Len(d)
        m == IF k < n THEN k ELSE n
    IN  { p \in [1..m -> 1..n] :
            /\ \A i, j \in 1..m : i # j => p[i] # p[j]
            /\ \A i \in 1..m : i < m => F32Leq(d[p[i]], d[p[i + 1]])
            /\ \A r \in 1..n :
                 (\A i \in 1..m : p[i] # r) => \A i \in 1..m : F32Leq(d[p[i]], d[r]) }

\* the record batches of a result stream: the rows, bs at a time
RECURSIVE Batches(_, _)
Batches(rows, bs) ==
    IF rows = <<>> THEN <<>>
    ELSE IF Len(rows) <= bs THEN <<rows>>
    ELSE <<SubSeq(rows, 1, bs)>> \o Batches(SubSeq(rows, bs + 1, Len(rows)), bs)

\* the result streams of table.query().nearest_to(q).limit(k).execute(); a
\* stream row holds the columns search reads and the row's place in the table
ResultStreams(table, q, k) ==
    LET d == [r \in 1..Len(table.rows) |-> Distance(q, table.rows[r].vector)]
    IN  { Batches([i \in 1..Len(p) |->
                     [id |-> table.rows[p[i]].id,
                      text |-> table.rows[p[i]].text,
                      distance |-> d[p[i]],
                      row |-> p[i]]], bs) :
            p \in Nearest(d, k), bs \in 1..MaxBatchRows }

(***************************************************************************)
(* The commands.  Each operator is the whole command as a function of the  *)
(* root: it yields the root the command leaves and the result it returns.  *)
(***************************************************************************)
NoCall ==
    [op |-> "none", doc |-> <<>>, chunks |-> <<>>, query |-> <<>>, top_k |-> 0,
     ok |-> TRUE, err |-> "", table |-> <<>>, count |-> 0, found |-> FALSE,
     results |-> <<>>, stream |-> <<>>, existed |-> {},
     replaced |-> [valid |-> FALSE, doc |-> <<>>, chunks |-> <<>>]]

NoWrite == [valid |-> FALSE, doc |-> <<>>, chunks |-> <<>>]

\* VectorStoreState::new(): db_path is None
None == <<>>
Some(x) == <<x>>

\* The paths initialize is called with: the root the other commands are
\* called with, another root, and a path no connection can be made to
StoragePaths == {"store", "other", "bogus://store"}

\* connect(&storage_path).execute() succeeds
Connects(storage_path) == storage_path # "bogus://store"

\* vector_store_initialize: the path is recorded before the connection is tried
vector_store_initialize(storage_path) ==
    [db_path |-> Some(storage_path),
     ok |-> Connects(storage_path),
     err |-> IF Connects(storage_path) THEN "" ELSE "Failed to connect to LanceDB"]

\* no caller has a command in flight
NoCalls == <<>>

\* no temporary file is in the storage root
NoFiles == [n \in {} |-> 0]

\* no function of arxiv.rs has been called
NoArxiv == [op |-> "none"]

\* vector_store_add_chunks with a fault: the new rows are appended to the rows of the old table
AddChunksAppend(tbls, document_id, chunks) ==
    LET table_name == TableName(document_id)
        batch == EncodeBatch(chunks)
        old == IF table_name \in DOMAIN tbls THEN tbls[table_name].rows ELSE <<>>
        dropped == DropTable(tbls, table_name).tables
    IN  IF ~batch.ok
        THEN [tables |-> dropped, ok |-> FALSE, err |-> batch.err,
              table |-> table_name, count |-> 0]
        ELSE [tables |-> CreateTable(dropped, table_name, batch.dim, old \o batch.rows).tables,
              ok |-> TRUE, err |-> "", table |-> table_name, count |-> Len(chunks)]

\* vector_store_add_chunks with a fault: a failed drop of the old table is returned
AddChunksStrictDrop(tbls, document_id, chunks) ==
    LET table_name == TableName(document_id)
        dropped == DropTable(tbls, table_name)
        batch == EncodeBatch(chunks)
    IN  IF ~dropped.ok
        THEN [tables |-> tbls, ok |-> FALSE, err |-> "Failed to delete table",
              table |-> table_name, count |-> 0]
        ELSE IF ~batch.ok
        THEN [tables |-> dropped.tables, ok |-> FALSE, err |-> batch.err,
              table |-> table_name, count |-> 0]
        ELSE [tables |-> CreateTable(dropped.tables, table_name, batch.dim, batch.rows).tables,
              ok |-> TRUE, err |-> "", table |-> table_name, count |-> Len(chunks)]

\* vector_store_add_chunks: the old table is dropped first (a failed drop is
\* ignored), then the batch is encoded, written to the temporary file, read
\* back and imported as the new table
vector_store_add_chunks(tbls, document_id, chunks) ==
    LET table_name == TableName(document_id)
        dropped == DropTable(tbls, table_name).tables
        batch == EncodeBatch(chunks)
    IN  IF ~batch.ok
        THEN [tables |-> dropped, ok |-> FALSE, err |-> batch.err,
              table |-> table_name, count |-> 0]
        ELSE LET created == CreateTable(dropped, table_name, batch.dim, batch.rows)
             IN  IF ~created.ok
                 THEN [tables |-> created.tables, ok |-> FALSE,
                       err |-> "Failed to create table", table |-> table_name, count |-> 0]
                 ELSE [tables |-> created.tables, ok |-> TRUE, err |-> "",
                       table |-> table_name, count |-> Len(chunks)]

\* the rows of one record batch, from row i on, as results
RECURSIVE ConvertRows(_, _)
ConvertRows(batch, i) ==
    IF i > Len(batch) THEN <<>>
    ELSE <<[id |-> batch[i].id, text |-> batch[i].text,
            score |-> Score(batch[i].distance), distance |-> batch[i].distance]>>
         \o ConvertRows(batch, i + 1)

\* CollectResults with a fault: only the last batch of the stream is converted
CollectResultsLastBatchOnly(stream) ==
    IF stream = <<>> THEN <<>> ELSE ConvertRows(stream[Len(stream)], 1)

\* CollectResults with a fault: later batches are put before earlier ones
RECURSIVE CollectResultsReversed(_)
CollectResultsReversed(stream) ==
    IF stream = <<>> THEN <<>>
    ELSE CollectResultsReversed(Tail(stream)) \o ConvertRows(Head(stream), 1)

\* while let Some(batch_result) = result_stream.next().await { ... }
RECURSIVE CollectResults(_)
CollectResults(stream) ==
    IF stream = <<>> THEN <<>>
    ELSE ConvertRows(Head(stream), 1) \o CollectResults(Tail(stream))

\* vector_store_search with a fault: a top_k above the row count is an error
SearchRefusesLargeK(tbls, document_id, query_embedding, top_k) ==
    LET table_name == TableName(document_id)
    IN  IF table_name \notin DOMAIN tbls
        THEN {[ok |-> FALSE, err |-> "Table not found", results |-> <<>>, stream |-> <<>>]}
        ELSE IF Len(query_embedding) # tbls[table_name].dim
                \/ top_k > Len(tbls[table_name].rows)
        THEN {[ok |-> FALSE, err |-> "Search failed", results |-> <<>>, stream |-> <<>>]}
        ELSE {[ok |-> TRUE, err |-> "", results |-> CollectResults(st), stream |-> st] :
                st \in ResultStreams(tbls[table_name], query_embedding, top_k)}

\* vector_store_search with a fault: a query vector of another length than
\* the table's vectors finds nothing
SearchIgnoresDimension(tbls, document_id, query_embedding, top_k) ==
    LET table_name == TableName(document_id)
    IN  IF table_name \notin DOMAIN tbls
        THEN {[ok |-> FALSE, err |-> "Table not found", results |-> <<>>, stream |-> <<>>]}
        ELSE IF Len(query_embedding) # tbls[table_name].dim
        THEN {[ok |-> TRUE, err |-> "", results |-> <<>>, stream |-> <<>>]}
        ELSE {[ok |-> TRUE, err |-> "", results |-> CollectResults(st), stream |-> st] :
                st \in ResultStreams(tbls[table_name], query_embedding, top_k)}

\* vector_store_search: every result the command can return
vector_store_search(tbls, document_id, query_embedding, top_k) ==
    LET table_name == TableName(document_id)
    IN  IF table_name \notin DOMAIN tbls
        THEN {[ok |-> FALSE, err |-> "Table not found", results |-> <<>>, stream |-> <<>>]}
        ELSE IF Len(query_embedding) # tbls[table_name].dim
        THEN {[ok |-> FALSE, err |-> "Search failed", results |-> <<>>, stream |-> <<>>]}
        ELSE {[ok |-> TRUE, err |-> "", results |-> CollectResults(st), stream |-> st] :
                st \in ResultStreams(tbls[table_name], query_embedding, top_k)}

\* vector_store_has_document with a fault: the table is never found
HasDocumentNever(tbls, document_id) == [ok |-> TRUE, found |-> FALSE]

\* vector_store_has_document
vector_store_has_document(tbls, document_id) ==
    [ok |-> TRUE, found |-> Contains(TableNamesOf(tbls), TableName(document_id))]

\* vector_store_delete_document with a fault: success is returned for a table
\* that is there, and the table is kept
DeleteDocumentKeeps(tbls, document_id) ==
    LET table_name == TableName(document_id)
    IN  IF table_name \notin DOMAIN tbls
        THEN [tables |-> tbls, ok |-> FALSE, err |-> "Failed to delete table",
              table |-> table_name]
        ELSE [tables |-> tbls, ok |-> TRUE, err |-> "", table |-> table_name]

\* vector_store_delete_document
vector_store_delete_document(tbls, document_id) ==
    LET table_name == TableName(document_id)
        dropped == DropTable(tbls, table_name)
    IN  IF ~dropped.ok
        THEN [tables |-> tbls, ok |-> FALSE, err |-> "Failed to delete table",
              table |-> table_name]
        ELSE [tables |-> dropped.tables, ok |-> TRUE, err |-> "", table |-> table_name]

\* for table_name in table_names { db.drop_table(&table_name)...?; }
RECURSIVE DropEach(_, _)
DropEach(tbls, table_names) ==
    IF table_names = <<>> THEN [tables |-> tbls, ok |-> TRUE, err |-> "", table |-> <<>>]
    ELSE LET dropped == DropTable(tbls, Head(table_names))
         IN  IF ~dropped.ok
             THEN [tables |-> tbls, ok |-> FALSE, err |-> "Failed to delete table",
                   table |-> Head(table_names)]
             ELSE DropEach(dropped.tables, Tail(table_names))

\* vector_store_clear_all with a fault: only the first listed table is dropped
ClearAllFirstOnly(tbls) ==
    LET table_names == TableNamesOf(tbls)
    IN  IF table_names = <<>> THEN DropEach(tbls, table_names)
        ELSE DropEach(tbls, <<Head(table_names)>>)

\* vector_store_clear_all
vector_store_clear_all(tbls) == DropEach(tbls, TableNamesOf(tbls))

\* vector_store_get_count with a fault: the count of a non-empty table is one short
GetCountOffByOne(tbls, document_id) ==
    LET table_name == TableName(document_id)
    IN  IF table_name \notin DOMAIN tbls
        THEN [ok |-> FALSE, err |-> "Table not found", count |-> 0]
        ELSE [ok |-> TRUE, err |-> "",
              count |-> IF tbls[table_name].rows = <<>> THEN 0
                        ELSE Len(tbls[table_name].rows) - 1]

\* vector_store_get_count
vector_store_get_count(tbls, document_id) ==
    LET table_name == TableName(document_id)
    IN  IF table_name \notin DOMAIN tbls
        THEN [ok |-> FALSE, err |-> "Table not found", count |-> 0]
        ELSE [ok |-> TRUE, err |-> "", count |-> Len(tbls[table_name].rows)]

(***************************************************************************)
(* The state machine: a fresh storage root, and one action per command.    *)
(***************************************************************************)
Init ==
    /\ tables = NoTables
    /\ written = [n \in TableNames |-> NoWrite]
    /\ last = NoCall
    /\ db_path = None
    /\ temp_files = NoFiles
    /\ arxiv = NoArxiv
    /\ calls = NoCalls

AddChunks(document_id, chunks) ==
    LET out == vector_store_add_chunks(tables, document_id, chunks)
    IN  /\ tables' = out.tables
        /\ written' = [written EXCEPT ![out.table] =
                          IF out.ok
                          THEN [valid |-> TRUE, doc |-> document_id, chunks |-> chunks]
                          ELSE NoWrite]
        /\ last' = [NoCall EXCEPT !.op = "add_chunks", !.doc = document_id,
                                  !.chunks = chunks, !.ok = out.ok, !.err = out.err,
                                  !.table = out.table, !.count = out.count,
                                  !.existed = DOMAIN tables,
                                  !.replaced = written[out.table]]
        /\ UNCHANGED <<db_path, temp_files, calls, arxiv>>

Search(document_id, query_embedding, top_k) ==
    \E out \in vector_store_search(tables, document_id, query_embedding, top_k) :
        /\ last' = [NoCall EXCEPT !.op = "search", !.doc = document_id,
                                  !.query = query_embedding, !.top_k = top_k,
                                  !.ok = out.ok, !.err = out.err,
                                  !.table = TableName(document_id),
                                  !.existed = DOMAIN tables,
                                  !.results = out.results, !.stream = out.stream]
        /\ UNCHANGED <<tables, written, db_path, temp_files, calls, arxiv>>

\* HasDocument with a fault: nothing is found before initialize has recorded a path
HasDocumentNeedsInitialize(document_id) ==
    LET out == IF db_path = None THEN [ok |-> TRUE, found |-> FALSE]
               ELSE vector_store_has_document(tables, document_id)
    IN  /\ last' = [NoCall EXCEPT !.op = "has_document", !.doc = document_id,
                                  !.ok = out.ok, !.found = out.found,
                                  !.existed = DOMAIN tables,
                                  !.table = TableName(document_id)]
        /\ UNCHANGED <<tables, written, db_path, temp_files, calls, arxiv>>

HasDocument(document_id) ==
    LET out == vector_store_has_document(tables, document_id)
    IN  /\ last' = [NoCall EXCEPT !.op = "has_document", !.doc = document_id,
                                  !.ok = out.ok, !.found = out.found,
                                  !.existed = DOMAIN tables,
                                  !.table = TableName(document_id)]
        /\ UNCHANGED <<tables, written, db_path, temp_files, calls, arxiv>>

DeleteDocument(document_id) ==
    LET out == vector_store_delete_document(tables, document_id)
    IN  /\ tables' = out.tables
        /\ written' = [written EXCEPT ![out.table] = NoWrite]
        /\ last' = [NoCall EXCEPT !.op = "delete_document", !.doc = document_id,
                                  !.ok = out.ok, !.err = out.err, !.table = out.table,
                                  !.existed = DOMAIN tables]
        /\ UNCHANGED <<db_path, temp_files, calls, arxiv>>

ClearAll ==
    LET out == vector_store_clear_all(tables)
    IN  /\ tables' = out.tables
        /\ written' = [n \in TableNames |-> NoWrite]
        /\ last' = [NoCall EXCEPT !.op = "clear_all", !.ok = out.ok, !.err = out.err,
                                  !.table = out.table, !.existed = DOMAIN tables]
        /\ UNCHANGED <<db_path, temp_files, calls, arxiv>>

\* GetCount with a fault: the command drops the table it counted
GetCountDropsTable(document_id) ==
    LET out == vector_store_get_count(tables, document_id)
    IN  /\ last' = [NoCall EXCEPT !.op = "get_count", !.doc = document_id,
                                  !.ok = out.ok, !.err = out.err, !.count = out.count,
                                  !.existed = DOMAIN tables,
                                  !.table = TableName(document_id)]
        /\ tables' = DropTable(tables, TableName(document_id)).tables
        /\ written' = [written EXCEPT ![TableName(document_id)] = NoWrite]
        /\ UNCHANGED <<db_path, temp_files, calls, arxiv>>

GetCount(document_id) ==
    LET out == vector_store_get_count(tables, document_id)
    IN  /\ last' = [NoCall EXCEPT !.op = "get_count", !.doc = document_id,
                                  !.ok = out.ok, !.err = out.err, !.count = out.count,
                                  !.existed = DOMAIN tables,
                                  !.table = TableName(document_id)]
        /\ UNCHANGED <<tables, written, db_path, temp_files, calls, arxiv>>

\* Spec: the commands on one document, chunk lists of up to MaxChunks records
Next ==
    \/ \E d \in DocIds, c \in ChunkLists : AddChunks(d, c)
    \/ \E d \in DocIds, q \in Queries, k \in TopKs : Search(d, q, k)
    \/ \E d \in DocIds : HasDocument(d)
    \/ \E d \in DocIds : DeleteDocument(d)
    \/ ClearAll
    \/ \E d \in DocIds : GetCount(d)

Spec == Init /\ [][Next]_vars

\* SpecRoot: the same commands on a root of several documents, chunk lists
\* of up to MaxRootChunks records
NextRoot ==
    \/ \E d \in RootDocIds, c \in RootChunkLists : AddChunks(d, c)
    \/ \E d \in RootDocIds, q \in RootQueries, k \in TopKs : Search(d, q, k)
    \/ \E d \in RootDocIds : HasDocument(d)
    \/ \E d \in RootDocIds : DeleteDocument(d)
    \/ ClearAll
    \/ \E d \in RootDocIds : GetCount(d)

SpecRoot == Init /\ [][NextRoot]_vars

\* SpecMixed: the commands on one document, with chunk lists of up to
\* MaxMixedChunks records whose vectors may differ in length
NextMixed ==
    \/ \E d \in DocIds, c \in MixedChunkLists : AddChunks(d, c)
    \/ \E d \in DocIds, q \in RootQueries, k \in TopKs : Search(d, q, k)
    \/ \E d \in DocIds : HasDocument(d)
    \/ \E d \in DocIds : DeleteDocument(d)
    \/ ClearAll
    \/ \E d \in DocIds : GetCount(d)

SpecMixed == Init /\ [][NextMixed]_vars

\* SpecInit: the commands on the root "store", and initialize with any path
Initialize(storage_path) ==
    LET out == vector_store_initialize(storage_path)
    IN  /\ db_path' = out.db_path
        /\ last' = [NoCall EXCEPT !.op = "initialize", !.ok = out.ok, !.err = out.err,
                                  !.existed = DOMAIN tables]
        /\ UNCHANGED <<tables, written, calls, temp_files, arxiv>>

NextInit ==
    \/ \E p \in StoragePaths : Initialize(p)
    \/ \E d \in DocIds, c \in RootChunkLists : AddChunks(d, c)
    \/ \E d \in DocIds, q \in RootQueries, k \in TopKs : Search(d, q, k)
    \/ \E d \in DocIds : HasDocument(d)
    \/ \E d \in DocIds : DeleteDocument(d)
    \/ ClearAll
    \/ \E d \in DocIds : GetCount(d)

SpecInit == Init /\ [][NextInit]_vars

(***************************************************************************)
(* SpecRace: three callers, each running one command on one root, a step   *)
(* per call of the storage backend (the points where a command awaits and  *)
(* another caller's step can come in between): "w" runs add_chunks, "d"    *)
(* runs delete_document or clear_all, "r" runs search.  The root starts    *)
(* with any of the tables of RaceDocIds, each written from OldChunks.      *)
(* calls.of is each caller's command, calls.log the history of the drops   *)
(* and creations that succeeded, the creation of the first tables (by      *)
(* "setup") included.                                                      *)
(***************************************************************************)
RaceDocIds == DocIds \cup { <<"d", "o", "c", "2">>, <<"a">> }

OldChunks == << ChunkData("b", "beta", <<0, 1>>, 1, 4) >>

\* the chunk lists of the writer: RootChunkLists, and one list that does not encode
RaceChunkLists ==
    RootChunkLists \cup
        { << ChunkData("a", "alpha", <<1, 0>>, 0, 5), ChunkData("b", "beta", <<0>>, 1, 4) >> }

\* the table create_table makes of an encoded chunk list
TableOf(chunks) == [dim |-> EncodeBatch(chunks).dim, rows |-> EncodeBatch(chunks).rows]

Idle ==
    [op |-> "idle", pc |-> "idle", doc |-> <<>>, chunks |-> <<>>, query |-> <<>>,
     top_k |-> 0, table |-> <<>>, listing |-> <<>>, swept |-> <<>>,
     handle |-> [dim |-> 0, rows |-> <<>>],
     ok |-> TRUE, err |-> "", results |-> <<>>]

Logged(caller, step, table) ==
    calls.log \o << [caller |-> caller, step |-> step, table |-> table] >>

\* add_chunks up to its first await: the table name and the drop of the old
\* table, whose failure is ignored
RaceAddChunksNoDrop(c, document_id, chunks) ==
    /\ calls.of[c].pc = "idle"
    /\ calls' = [calls EXCEPT !.of[c] =
                    [Idle EXCEPT !.op = "add_chunks", !.pc = "create",
                                 !.doc = document_id, !.chunks = chunks,
                                 !.table = TableName(document_id)]]
    /\ UNCHANGED <<tables, written, last, db_path, temp_files, arxiv>>

RaceAddChunks(c, document_id, chunks) ==
    LET table_name == TableName(document_id)
        dropped == DropTable(tables, table_name)
    IN  /\ calls.of[c].pc = "idle"
        /\ tables' = dropped.tables
        /\ calls' = [of |-> [calls.of EXCEPT ![c] =
                               [Idle EXCEPT !.op = "add_chunks", !.pc = "create",
                                            !.doc = document_id, !.chunks = chunks,
                                            !.table = table_name]],
                     log |-> IF dropped.ok THEN Logged(c, "drop", table_name) ELSE calls.log]
        /\ UNCHANGED <<written, last, db_path, temp_files, arxiv>>

\* the rest of add_chunks: the batch, the temporary file, create_table
RaceCreate(c) ==
    LET call == calls.of[c]
        batch == EncodeBatch(call.chunks)
        created == CreateTable(tables, call.table, batch.dim, batch.rows)
    IN  /\ call.pc = "create"
        /\ IF ~batch.ok
           THEN /\ tables' = tables
                /\ calls' = [calls EXCEPT !.of[c].pc = "done", !.of[c].ok = FALSE,
                                          !.of[c].err = batch.err]
           ELSE /\ tables' = created.tables
                /\ calls' = [of |-> [calls.of EXCEPT
                                       ![c].pc = "done", ![c].ok = created.ok,
                                       ![c].err = IF created.ok THEN ""
                                                  ELSE "Failed to create table"],
                             log |-> IF created.ok THEN Logged(c, "create", call.table)
                                     ELSE calls.log]
        /\ UNCHANGED <<written, last, db_path, temp_files, arxiv>>

\* RaceDeleteDocument with a fault: the drop takes every table of the root
RaceDeleteDocumentSweeping(c, document_id) ==
    LET out == vector_store_delete_document(tables, document_id)
    IN  /\ calls.of[c].pc = "idle"
        /\ tables' = IF out.ok THEN NoTables ELSE tables
        /\ calls' = [of |-> [calls.of EXCEPT ![c] =
                               [Idle EXCEPT !.op = "delete_document", !.pc = "done",
                                            !.doc = document_id, !.table = out.table,
                                            !.ok = out.ok, !.err = out.err]],
                     log |-> IF out.ok THEN Logged(c, "drop", out.table) ELSE calls.log]
        /\ UNCHANGED <<written, last, db_path, temp_files, arxiv>>

\* delete_document: one drop
RaceDeleteDocument(c, document_id) ==
    LET out == vector_store_delete_document(tables, document_id)
    IN  /\ calls.of[c].pc = "idle"
        /\ tables' = out.tables
        /\ calls' = [of |-> [calls.of EXCEPT ![c] =
                               [Idle EXCEPT !.op = "delete_document", !.pc = "done",
                                            !.doc = document_id, !.table = out.table,
                                            !.ok = out.ok, !.err = out.err]],
                     log |-> IF out.ok THEN Logged(c, "drop", out.table) ELSE calls.log]
        /\ UNCHANGED <<written, last, db_path, temp_files, arxiv>>

\* clear_all up to the listing: db.table_names().execute().await
RaceClearAll(c) ==
    LET table_names == TableNamesOf(tables)
    IN  /\ calls.of[c].pc = "idle"
        /\ calls' = [calls EXCEPT !.of[c] =
                        [Idle EXCEPT !.op = "clear_all", !.listing = table_names,
                                     !.pc = IF table_names = <<>> THEN "done" ELSE "sweep"]]
        /\ UNCHANGED <<tables, written, last, db_path, temp_files, arxiv>>

\* RaceClearDrop with a fault: after a failed drop the sweep goes on
RaceClearDropBestEffort(c) ==
    LET call == calls.of[c]
        table_name == Head(call.listing)
        dropped == DropTable(tables, table_name)
        more == Tail(call.listing) # <<>>
    IN  /\ call.pc = "sweep"
        /\ tables' = dropped.tables
        /\ IF ~dropped.ok
           THEN calls' = [calls EXCEPT !.of[c].pc = IF more THEN "sweep" ELSE "done",
                                       !.of[c].ok = FALSE,
                                       !.of[c].err = "Failed to delete table",
                                       !.of[c].table = table_name,
                                       !.of[c].listing = IF more THEN Tail(call.listing)
                                                         ELSE call.listing]
           ELSE calls' = [of |-> [calls.of EXCEPT
                                    ![c].pc = IF more THEN "sweep" ELSE "done",
                                    ![c].listing = Tail(call.listing),
                                    ![c].swept = Append(call.swept, table_name)],
                          log |-> Logged(c, "drop", table_name)]
        /\ UNCHANGED <<written, last, db_path, temp_files, arxiv>>

\* one turn of the loop of clear_all: the drop of the next listed table; a
\* failure ends the command, listing keeps the failed table and those after it
RaceClearDrop(c) ==
    LET call == calls.of[c]
        table_name == Head(call.listing)
        dropped == DropTable(tables, table_name)
    IN  /\ call.pc = "sweep"
        /\ tables' = dropped.tables
        /\ IF ~dropped.ok
           THEN calls' = [calls EXCEPT !.of[c].pc = "done", !.of[c].ok = FALSE,
                                       !.of[c].err = "Failed to delete table",
                                       !.of[c].table = table_name]
           ELSE calls' = [of |-> [calls.of EXCEPT
                                    ![c].pc = IF Tail(call.listing) = <<>> THEN "done"
                                              ELSE "sweep",
                                    ![c].listing = Tail(call.listing),
                                    ![c].swept = Append(call.swept, table_name)],
                          log |-> Logged(c, "drop", table_name)]
        /\ UNCHANGED <<written, last, db_path, temp_files, arxiv>>

\* search up to open_table: the handle is the table as it is opened
RaceSearch(c, document_id, query_embedding, top_k) ==
    LET table_name == TableName(document_id)
        call == [Idle EXCEPT !.op = "search", !.doc = document_id,
                             !.query = query_embedding, !.top_k = top_k,
                             !.table = table_name]
    IN  /\ calls.of[c].pc = "idle"
        /\ calls' = [calls EXCEPT !.of[c] =
                        IF table_name \notin DOMAIN tables
                        THEN [call EXCEPT !.pc = "done", !.ok = FALSE,
                                          !.err = "Table not found"]
                        ELSE [call EXCEPT !.pc = "execute", !.handle = tables[table_name]]]
        /\ UNCHANGED <<tables, written, last, db_path, temp_files, arxiv>>

\* the nearest-neighbour query on one version of a table, and the conversion
\* of its result stream
QueryTable(table, query_embedding, top_k) ==
    IF Len(query_embedding) # table.dim
    THEN {[ok |-> FALSE, err |-> "Search failed", results |-> <<>>]}
    ELSE {[ok |-> TRUE, err |-> "", results |-> CollectResults(st)] :
            st \in ResultStreams(table, query_embedding, top_k)}

\* the versions of the table a query through the handle can read: the one
\* opened and, when the table was dropped or made anew since, the one in place
Readable(handle, table_name) ==
    {handle} \cup (IF table_name \in DOMAIN tables THEN {tables[table_name]} ELSE {})

\* RaceExecute with a fault: the query reads the rows of the opened table and
\* of the table in place together
RaceExecuteTorn(c) ==
    LET call == calls.of[c]
        both == UNION {{v.rows[i] : i \in 1..Len(v.rows)} : v \in Readable(call.handle, call.table)}
        torn == [dim |-> call.handle.dim, rows |-> Listing(both)]
    IN  /\ call.pc = "execute"
        /\ \E out \in QueryTable(torn, call.query, call.top_k) :
              calls' = [calls EXCEPT !.of[c].pc = "done", !.of[c].ok = out.ok,
                                     !.of[c].err = out.err, !.of[c].results = out.results]
        /\ UNCHANGED <<tables, written, last, db_path, temp_files, arxiv>>

\* the rest of search: the query and the loop over its result stream.  When
\* the table was dropped or made anew after it was opened, the query reads
\* one of the readable versions or fails
RaceExecute(c) ==
    LET call == calls.of[c]
        changed == Readable(call.handle, call.table) # {call.handle}
                     \/ call.table \notin DOMAIN tables
        outs == UNION {QueryTable(v, call.query, call.top_k) :
                         v \in Readable(call.handle, call.table)}
                  \cup (IF changed
                        THEN {[ok |-> FALSE, err |-> "Search failed", results |-> <<>>]}
                        ELSE {})
    IN  /\ call.pc = "execute"
        /\ \E out \in outs :
              calls' = [calls EXCEPT !.of[c].pc = "done", !.of[c].ok = out.ok,
                                     !.of[c].err = out.err, !.of[c].results = out.results]
        /\ UNCHANGED <<tables, written, last, db_path, temp_files, arxiv>>

InitRace ==
    /\ tables \in {[t \in S |-> TableOf(OldChunks)] :
                     S \in SUBSET {TableName(d) : d \in RaceDocIds}}
    /\ written = [n \in TableNames |-> NoWrite]
    /\ last = NoCall
    /\ db_path = None
    /\ temp_files = NoFiles
    /\ arxiv = NoArxiv
    /\ calls = [of |-> [c \in {"w", "d", "r"} |-> Idle],
                log |-> [i \in 1..Len(TableNamesOf(tables)) |->
                           [caller |-> "setup", step |-> "create",
                            table |-> TableNamesOf(tables)[i]]]]

NextRace ==
    \/ \E d \in RaceDocIds, c \in RaceChunkLists : RaceAddChunks("w", d, c)
    \/ RaceCreate("w")
    \/ \E d \in RaceDocIds : RaceDeleteDocument("d", d)
    \/ RaceClearAll("d")
    \/ RaceClearDrop("d")
    \/ \E d \in DocIds, q \in RootQueries, k \in TopKs : RaceSearch("r", d, q, k)
    \/ RaceExecute("r")

SpecRace == InitRace /\ [][NextRace]_vars

(***************************************************************************)
(* SpecName: the five commands that take a document id, on a root of one   *)
(* document whose id is any string of up to MaxIdLen characters of         *)
(* NameChars; the id is drawn at the start and every command is called     *)
(* with it.                                                                *)
(***************************************************************************)
NameChars == {"a", "Z", "9", "-", "_", ".", " "}

NameIds == UNION {[1..k -> NameChars] : k \in 0..MaxIdLen}

InitName ==
    /\ tables = NoTables
    /\ written = [n \in {TableName(d) : d \in NameIds} |-> NoWrite]
    /\ last \in {[NoCall EXCEPT !.doc = d] : d \in NameIds}
    /\ db_path = None
    /\ temp_files = NoFiles
    /\ arxiv = NoArxiv
    /\ calls = NoCalls

NextName ==
    \/ \E c \in RootChunkLists : AddChunks(last.doc, c)
    \/ \E q \in RootQueries : Search(last.doc, q, 1)
    \/ HasDocument(last.doc)
    \/ DeleteDocument(last.doc)
    \/ GetCount(last.doc)

SpecName == InitName /\ [][NextName]_vars

(***************************************************************************)
(* SpecIngest: two callers, each running one add_chunks for a document id  *)
(* of the same table name, on one root; the commands run on a              *)
(* multi-threaded runtime, so a step of one can come between any two       *)
(* backend or file-system calls of the other.  A step per call: the drop,  *)
(* the writing of the temporary file, the reading of it with create_table, *)
(* the removal of the file.                                                *)
(***************************************************************************)
IngestDocIds == DocIds \cup { <<"d", "o", "c", "_", "1">> }

NoBatch == [dim |-> 0, rows |-> <<>>]

IdleWriter ==
    [op |-> "idle", pc |-> "idle", doc |-> <<>>, chunks |-> <<>>, table |-> <<>>,
     imported |-> NoBatch, ok |-> TRUE, err |-> ""]

\* add_chunks up to db.drop_table(&table_name).await
IngestAddChunks(c, document_id, chunks) ==
    LET table_name == TableName(document_id)
    IN  /\ calls.of[c].pc = "idle"
        /\ tables' = DropTable(tables, table_name).tables
        /\ calls' = [calls EXCEPT !.of[c] =
                        [IdleWriter EXCEPT !.op = "add_chunks", !.pc = "write",
                                           !.doc = document_id, !.chunks = chunks,
                                           !.table = table_name]]
        /\ UNCHANGED <<written, last, db_path, temp_files, arxiv>>

\* the batch, and File::create, writer.write, writer.finish on
\* temp_<table_name>.arrow: the file holds this call's batch, whatever it held
IngestWrite(c) ==
    LET call == calls.of[c]
        batch == EncodeBatch(call.chunks)
    IN  /\ call.pc = "write"
        /\ IF ~batch.ok
           THEN /\ calls' = [calls EXCEPT !.of[c].pc = "done", !.of[c].ok = FALSE,
                                          !.of[c].err = batch.err]
                /\ temp_files' = temp_files
           ELSE /\ calls' = [calls EXCEPT !.of[c].pc = "import"]
                /\ temp_files' = [n \in DOMAIN temp_files \cup {call.table} |->
                                    IF n = call.table
                                    THEN [dim |-> batch.dim, rows |-> batch.rows]
                                    ELSE temp_files[n]]
        /\ UNCHANGED <<tables, written, last, db_path, arxiv>>

\* File::open, FileReader::try_new and create_table from the reader: the
\* table is made of what the file holds now
IngestImport(c) ==
    LET call == calls.of[c]
    IN  /\ call.pc = "import"
        /\ IF call.table \notin DOMAIN temp_files
           THEN /\ calls' = [calls EXCEPT !.of[c].pc = "done", !.of[c].ok = FALSE,
                                          !.of[c].err = "Failed to open temp file"]
                /\ tables' = tables
           ELSE LET file == temp_files[call.table]
                    created == CreateTable(tables, call.table, file.dim, file.rows)
                IN  /\ tables' = created.tables
                    /\ calls' = IF created.ok
                                THEN [calls EXCEPT !.of[c].pc = "remove",
                                                   !.of[c].imported = file]
                                ELSE [calls EXCEPT !.of[c].pc = "done", !.of[c].ok = FALSE,
                                                   !.of[c].err = "Failed to create table"]
        /\ UNCHANGED <<written, last, db_path, temp_files, arxiv>>

\* let _ = std::fs::remove_file(&temp_path); Ok(..)
IngestRemove(c) ==
    /\ calls.of[c].pc = "remove"
    /\ temp_files' = [n \in DOMAIN temp_files \ {calls.of[c].table} |-> temp_files[n]]
    /\ calls' = [calls EXCEPT !.of[c].pc = "done"]
    /\ UNCHANGED <<tables, written, last, db_path, arxiv>>

InitIngest ==
    /\ tables \in {NoTables} \cup
                  {[t \in {TableName(d)} |-> TableOf(OldChunks)] : d \in IngestDocIds}
    /\ written = [n \in TableNames |-> NoWrite]
    /\ last = NoCall
    /\ db_path = None
    /\ temp_files = NoFiles
    /\ arxiv = NoArxiv
    /\ calls = [of |-> [c \in {"w1", "w2"} |-> IdleWriter], log |-> <<>>]

NextIngest ==
    \E c \in {"w1", "w2"} :
        \/ \E d \in IngestDocIds, ch \in RaceChunkLists : IngestAddChunks(c, d, ch)
        \/ IngestWrite(c)
        \/ IngestImport(c)
        \/ IngestRemove(c)

SpecIngest == InitIngest /\ [][NextIngest]_vars

(***************************************************************************)
(* SpecScore: the row conversion of search (the loop over the result       *)
(* stream) as a function of the stream the backend delivers.  The streams  *)
(* hold up to MaxStreamRows rows, closest first, with distances around     *)
(* 2^-24 (where 1.0 + d rounds to 1.0), around 1, and around 2^24 (where   *)
(* 1.0 + d rounds to d).                                                   *)
(***************************************************************************)
ExpAnchors == {1 - 2 * SigBits, 0 - SigBits, 1}

DistanceExps == UNION {(a - MaxExpSpan)..(a + MaxExpSpan) : a \in ExpAnchors}

StreamDistances ==
    {F32Zero} \cup {[m |-> m, e |-> e] : m \in {Half, Half + 1, Full - 1}, e \in DistanceExps}

DistanceLists ==
    {ds \in UNION {[1..n -> StreamDistances] : n \in 0..MaxStreamRows} :
        \A i \in 1..Len(ds) : i < Len(ds) => F32Leq(ds[i], ds[i + 1])}

Streams ==
    { Batches([i \in 1..Len(ds) |->
                 [id |-> "a", text |-> "alpha", distance |-> ds[i], row |-> i]], bs) :
        ds \in DistanceLists, bs \in 1..MaxBatchRows }

InitScore ==
    /\ tables = NoTables
    /\ written = [n \in TableNames |-> NoWrite]
    /\ last \in {[NoCall EXCEPT !.op = "stream", !.stream = st] : st \in Streams}
    /\ db_path = None
    /\ temp_files = NoFiles
    /\ arxiv = NoArxiv
    /\ calls = NoCalls

Convert ==
    /\ last.op = "stream"
    /\ last' = [last EXCEPT !.op = "convert", !.results = CollectResults(last.stream)]
    /\ UNCHANGED <<tables, written, db_path, temp_files, calls, arxiv>>

NextScore == Convert

SpecScore == InitScore /\ [][NextScore]_vars

(***************************************************************************)
(* arxiv.rs.  Strings are sequences of characters.                         *)
(***************************************************************************)
\* get_category_map: the pairs (code, name) in the order of the map.insert calls
CategoryInserts == <<
    <<<<"c", "s", ".", "A", "I">>,
      <<"A", "r", "t", "i", "f", "i", "c", "i", "a", "l", " ", "I", "n", "t", "e", "l", "l",
       "i", "g", "e", "n", "c", "e">>>>,
    <<<<"c", "s", ".", "A", "R">>,
      <<"H", "a", "r", "d", "w", "a", "r", "e", " ", "A", "r", "c", "h", "i", "t", "e", "c",
       "t", "u", "r", "e">>>>,
    <<<<"c", "s", ".", "C", "C">>,
      <<"C", "o", "m", "p", "u", "t", "a", "t", "i", "o", "n", "a", "l", " ", "C", "o", "m",
       "p", "l", "e", "x", "i", "t", "y">>>>,
    <<<<"c", "s", ".", "C", "E">>,
      <<"C", "o", "m", "p", "u", "t", "a", "t", "i", "o", "n", "a", "l", " ", "E", "n", "g",
       "i", "n", "e", "e", "r", "i", "n", "g", ",", " ", "F", "i", "n", "a", "n", "c", "e",
       ",", " ", "a", "n", "d", " ", "S", "c", "i", "e", "n", "c", "e">>>>,
    <<<<"c", "s", ".", "C", "G">>,
      <<"C", "o", "m", "p", "u", "t", "a", "t", "i", "o", "n", "a", "l", " ", "G", "e", "o",
       "m", "e", "t", "r", "y">>>>,
    <<<<"c", "s", ".", "C", "L">>,
      <<"C", "o", "m", "p", "u", "t", "a", "t", "i", "o", "n", " ", "a", "n", "d", " ", "L",
       "a", "n", "g", "u", "a", "g", "e">>>>,
    <<<<"c", "s", ".", "C", "R">>,
      <<"C", "r", "y", "p", "t", "o", "g", "r", "a", "p", "h", "y", " ", "a", "n", "d", " ",
       "S", "e", "c", "u", "r", "i", "t", "y">>>>,
    <<<<"c", "s", ".", "C", "V">>,
      <<"C", "o", "m", "p", "u", "t", "e", "r", " ", "V", "i", "s", "i", "o", "n", " ", "a",
       "n", "d", " ", "P", "a", "t", "t", "e", "r", "n", " ", "R", "e", "c", "o", "g", "n",
       "i", "t", "i", "o", "n">>>>,
    <<<<"c", "s", ".", "C", "Y">>,
      <<"C", "o", "m", "p", "u", "t", "e", "r", "s", " ", "a", "n", "d", " ", "S", "o", "c",
       "i", "e", "t", "y">>>>,
    <<<<"c", "s", ".", "D", "B">>,
      <<"D", "a", "t", "a", "b", "a", "s", "e", "s">>>>,
    <<<<"c", "s", ".", "D", "C">>,
      <<"D", "i", "s", "t", "r", "i", "b", "u", "t", "e", "d", ",", " ", "P", "a", "r", "a",
       "l", "l", "e", "l", ",", " ", "a", "n", "d", " ", "C", "l", "u", "s", "t", "e", "r",
       " ", "C", "o", "m", "p", "u", "t", "i", "n", "g">>>>,
    <<<<"c", "s", ".", "D", "L">>,
      <<"D", "i", "g", "i", "t", "a", "l", " ", "L", "i", "b", "r", "a", "r", "i", "e", "s">>>>,
    <<<<"c", "s", ".", "D", "M">>,
      <<"D", "i", "s", "c", "r", "e", "t", "e", " ", "M", "a", "t", "h", "e", "m", "a", "t",
       "i", "c", "s">>>>,
    <<<<"c", "s", ".", "D", "S">>,
      <<"D", "a", "t", "a", " ", "S", "t", "r", "u", "c", "t", "u", "r", "e", "s", " ", "a",
       "n", "d", " ", "A", "l", "g", "o", "r", "i", "t", "h", "m", "s">>>>,
    <<<<"c", "s", ".", "E", "T">>,
      <<"E", "m", "e", "r", "g", "i", "n", "g", " ", "T", "e", "c", "h", "n", "o", "l", "o",
       "g", "i", "e", "s">>>>,
    <<<<"c", "s", ".", "F", "L">>,
      <<"F", "o", "r", "m", "a", "l", " ", "L", "a", "n", "g", "u", "a", "g", "e", "s", " ",
       "a", "n", "d", " ", "A", "u", "t", "o", "m", "a", "t", "a", " ", "T", "h", "e", "o",
       "r", "y">>>>,
    <<<<"c", "s", ".", "G", "L">>,
      <<"G", "e", "n", "e", "r", "a", "l", " ", "L", "i", "t", "e", "r", "a", "t", "u", "r",
       "e">>>>,
    <<<<"c", "s", ".", "G", "R">>,
      <<"G", "r", "a", "p", "h", "i", "c", "s">>>>,
    <<<<"c", "s", ".", "G", "T">>,
      <<"C", "o", "m", "p", "u", "t", "e", "r", " ", "S", "c", "i", "e", "n", "c", "e", " ",
       "a", "n", "d", " ", "G", "a", "m", "e", " ", "T", "h", "e", "o", "r", "y">>>>,
    <<<<"c", "s", ".", "H", "C">>,
      <<"H", "u", "m", "a", "n", "-", "C", "o", "m", "p", "u", "t", "e", "r", " ", "I", "n",
       "t", "e", "r", "a", "c", "t", "i", "o", "n">>>>,
    <<<<"c", "s", ".", "I", "R">>,
      <<"I", "n", "f", "o", "r", "m", "a", "t", "i", "o", "n", " ", "R", "e", "t", "r", "i",
       "e", "v", "a", "l">>>>,
    <<<<"c", "s", ".", "I", "T">>,
      <<"I", "n", "f", "o", "r", "m", "a", "t", "i", "o", "n", " ", "T", "h", "e", "o", "r",
       "y">>>>,
    <<<<"c", "s", ".", "L", "G">>,
      <<"M", "a", "c", "h", "i", "n", "e", " ", "L", "e", "a", "r", "n", "i", "n", "g">>>>,
    <<<<"c", "s", ".", "L", "O">>,
      <<"L", "o", "g", "i", "c", " ", "i", "n", " ", "C", "o", "m", "p", "u", "t", "e", "r",
       " ", "S", "c", "i", "e", "n", "c", "e">>>>,
    <<<<"c", "s", ".", "M", "A">>,
      <<"M", "u", "l", "t", "i", "a", "g", "e", "n", "t", " ", "S", "y", "s", "t", "e", "m",
       "s">>>>,
    <<<<"c", "s", ".", "M", "M">>,
      <<"M", "u", "l", "t", "i", "m", "e", "d", "i", "a">>>>,
    <<<<"c", "s", ".", "M", "S">>,
      <<"M", "a", "t", "h", "e", "m", "a", "t", "i", "c", "a", "l", " ", "S", "o", "f", "t",
       "w", "a", "r", "e">>>>,
    <<<<"c", "s", ".", "N", "A">>,
      <<"N", "u", "m", "e", "r", "i", "c", "a", "l", " ", "A", "n", "a", "l", "y", "s", "i",
       "s">>>>,
    <<<<"c", "s", ".", "N", "E">>,
      <<"N", "e", "u", "r", "a", "l", " ", "a", "n", "d", " ", "E", "v", "o", "l", "u", "t",
       "i", "o", "n", "a", "r", "y", " ", "C", "o", "m", "p", "u", "t", "i", "n", "g">>>>,
    <<<<"c", "s", ".", "N", "I">>,
      <<"N", "e", "t", "w", "o", "r", "k", "i", "n", "g", " ", "a", "n", "d", " ", "I", "n",
       "t", "e", "r", "n", "e", "t", " ", "A", "r", "c", "h", "i", "t", "e", "c", "t", "u",
       "r", "e">>>>,
    <<<<"c", "s", ".", "O", "H">>,
      <<"O", "t", "h", "e", "r", " ", "C", "o", "m", "p", "u", "t", "e", "r", " ", "S", "c",
       "i", "e", "n", "c", "e">>>>,
    <<<<"c", "s", ".", "O", "S">>,
      <<"O", "p", "e", "r", "a", "t", "i", "n", "g", " ", "S", "y", "s", "t", "e", "m", "s">>>>,
    <<<<"c", "s", ".", "P", "F">>,
      <<"P", "e", "r", "f", "o", "r", "m", "a", "n", "c", "e">>>>,
    <<<<"c", "s", ".", "P", "L">>,
      <<"P", "r", "o", "g", "r", "a", "m", "m", "i", "n", "g", " ", "L", "a", "n", "g", "u",
       "a", "g", "e", "s">>>>,
    <<<<"c", "s", ".", "R", "O">>,
      <<"R", "o", "b", "o", "t", "i", "c", "s">>>>,
    <<<<"c", "s", ".", "S", "C">>,
      <<"S", "y", "m", "b", "o", "l", "i", "c", " ", "C", "o", "m", "p", "u", "t", "a", "t",
       "i", "o", "n">>>>,
    <<<<"c", "s", ".", "S", "D">>,
      <<"S", "o", "u", "n", "d">>>>,
    <<<<"c", "s", ".", "S", "E">>,
      <<"S", "o", "f", "t", "w", "a", "r", "e", " ", "E", "n", "g", "i", "n", "e", "e", "r",
       "i", "n", "g">>>>,
    <<<<"c", "s", ".", "S", "I">>,
      <<"S", "o", "c", "i", "a", "l", " ", "a", "n", "d", " ", "I", "n", "f", "o", "r", "m",
       "a", "t", "i", "o", "n", " ", "N", "e", "t", "w", "o", "r", "k", "s">>>>,
    <<<<"c", "s", ".", "S", "Y">>,
      <<"S", "y", "s", "t", "e", "m", "s", " ", "a", "n", "d", " ", "C", "o", "n", "t", "r",
       "o", "l">>>>,
    <<<<"e", "c", "o", "n", ".", "E", "M">>,
      <<"E", "c", "o", "n", "o", "m", "e", "t", "r", "i", "c", "s">>>>,
    <<<<"e", "c", "o", "n", ".", "G", "N">>,
      <<"G", "e", "n", "e", "r", "a", "l", " ", "E", "c", "o", "n", "o", "m", "i", "c", "s">>>>,
    <<<<"e", "c", "o", "n", ".", "T", "H">>,
      <<"T", "h", "e", "o", "r", "e", "t", "i", "c", "a", "l", " ", "E", "c", "o", "n", "o",
       "m", "i", "c", "s">>>>,
    <<<<"e", "e", "s", "s", ".", "A", "S">>,
      <<"A", "u", "d", "i", "o", " ", "a", "n", "d", " ", "S", "p", "e", "e", "c", "h", " ",
       "P", "r", "o", "c", "e", "s", "s", "i", "n", "g">>>>,
    <<<<"e", "e", "s", "s", ".", "I", "V">>,
      <<"I", "m", "a", "g", "e", " ", "a", "n", "d", " ", "V", "i", "d", "e", "o", " ", "P",
       "r", "o", "c", "e", "s", "s", "i", "n", "g">>>>,
    <<<<"e", "e", "s", "s", ".", "S", "P">>,
      <<"S", "i", "g", "n", "a", "l", " ", "P", "r", "o", "c", "e", "s", "s", "i", "n", "g">>>>,
    <<<<"e", "e", "s", "s", ".", "S", "Y">>,
      <<"S", "y", "s", "t", "e", "m", "s", " ", "a", "n", "d", " ", "C", "o", "n", "t", "r",
       "o", "l">>>>,
    <<<<"m", "a", "t", "h", ".", "A", "C">>,
      <<"C", "o", "m", "m", "u", "t", "a", "t", "i", "v", "e", " ", "A", "l", "g", "e", "b",
       "r", "a">>>>,
    <<<<"m", "a", "t", "h", ".", "A", "G">>,
      <<"A", "l", "g", "e", "b", "r", "a", "i", "c", " ", "G", "e", "o", "m", "e", "t", "r",
       "y">>>>,
    <<<<"m", "a", "t", "h", ".", "A", "P">>,
      <<"A", "n", "a", "l", "y", "s", "i", "s", " ", "o", "f", " ", "P", "D", "E", "s">>>>,
    <<<<"m", "a", "t", "h", ".", "A", "T">>,
      <<"A", "l", "g", "e", "b", "r", "a", "i", "c", " ", "T", "o", "p", "o", "l", "o", "g",
       "y">>>>,
    <<<<"m", "a", "t", "h", ".", "C", "A">>,
      <<"C", "l", "a", "s", "s", "i", "c", "a", "l", " ", "A", "n", "a", "l", "y", "s", "i",
       "s", " ", "a", "n", "d", " ", "O", "D", "E", "s">>>>,
    <<<<"m", "a", "t", "h", ".", "C", "O">>,
      <<"C", "o", "m", "b", "i", "n", "a", "t", "o", "r", "i", "c", "s">>>>,
    <<<<"m", "a", "t", "h", ".", "C", "T">>,
      <<"C", "a", "t", "e", "g", "o", "r", "y", " ", "T", "h", "e", "o", "r", "y">>>>,
    <<<<"m", "a", "t", "h", ".", "C", "V">>,
      <<"C", "o", "m", "p", "l", "e", "x", " ", "V", "a", "r", "i", "a", "b", "l", "e", "s">>>>,
    <<<<"m", "a", "t", "h", ".", "D", "G">>,
      <<"D", "i", "f", "f", "e", "r", "e", "n", "t", "i", "a", "l", " ", "G", "e", "o", "m",
       "e", "t", "r", "y">>>>,
    <<<<"m", "a", "t", "h", ".", "D", "S">>,
      <<"D", "y", "n", "a", "m", "i", "c", "a", "l", " ", "S", "y", "s", "t", "e", "m", "s">>>>,
    <<<<"m", "a", "t", "h", ".", "F", "A">>,
      <<"F", "u", "n", "c", "t", "i", "o", "n", "a", "l", " ", "A", "n", "a", "l", "y", "s",
       "i", "s">>>>,
    <<<<"m", "a", "t", "h", ".", "G", "M">>,
      <<"G", "e", "n", "e", "r", "a", "l", " ", "M", "a", "t", "h", "e", "m", "a", "t", "i",
       "c", "s">>>>,
    <<<<"m", "a", "t", "h", ".", "G", "N">>,
      <<"G", "e", "n", "e", "r", "a", "l", " ", "T", "o", "p", "o", "l", "o", "g", "y">>>>,
    <<<<"m", "a", "t", "h", ".", "G", "R">>,
      <<"G", "r", "o", "u", "p", " ", "T", "h", "e", "o", "r", "y">>>>,
    <<<<"m", "a", "t", "h", ".", "G", "T">>,
      <<"G", "e", "o", "m", "e", "t", "r", "i", "c", " ", "T", "o", "p", "o", "l", "o", "g",
       "y">>>>,
    <<<<"m", "a", "t", "h", ".", "H", "O">>,
      <<"H", "i", "s", "t", "o", "r", "y", " ", "a", "n", "d", " ", "O", "v", "e", "r", "v",
       "i", "e", "w">>>>,
    <<<<"m", "a", "t", "h", ".", "I", "T">>,
      <<"I", "n", "f", "o", "r", "m", "a", "t", "i", "o", "n", " ", "T", "h", "e", "o", "r",
       "y">>>>,
    <<<<"m", "a", "t", "h", ".", "K", "T">>,
      <<"K", "-", "T", "h", "e", "o", "r", "y", " ", "a", "n", "d", " ", "H", "o", "m", "o",
       "l", "o", "g", "y">>>>,
    <<<<"m", "a", "t", "h", ".", "L", "O">>,
      <<"L", "o", "g", "i", "c">>>>,
    <<<<"m", "a", "t", "h", ".", "M", "G">>,
      <<"M", "e", "t", "r", "i", "c", " ", "G", "e", "o", "m", "e", "t", "r", "y">>>>,
    <<<<"m", "a", "t", "h", ".", "M", "P">>,
      <<"M", "a", "t", "h", "e", "m", "a", "t", "i", "c", "a", "l", " ", "P", "h", "y", "s",
       "i", "c", "s">>>>,
    <<<<"m", "a", "t", "h", ".", "N", "A">>,
      <<"N", "u", "m", "e", "r", "i", "c", "a", "l", " ", "A", "n", "a", "l", "y", "s", "i",
       "s">>>>,
    <<<<"m", "a", "t", "h", ".", "N", "T">>,
      <<"N", "u", "m", "b", "e", "r", " ", "T", "h", "e", "o", "r", "y">>>>,
    <<<<"m", "a", "t", "h", ".", "O", "A">>,
      <<"O", "p", "e", "r", "a", "t", "o", "r", " ", "A", "l", "g", "e", "b", "r", "a", "s">>>>,
    <<<<"m", "a", "t", "h", ".", "O", "C">>,
      <<"O", "p", "t", "i", "m", "i", "z", "a", "t", "i", "o", "n", " ", "a", "n", "d", " ",
       "C", "o", "n", "t", "r", "o", "l">>>>,
    <<<<"m", "a", "t", "h", ".", "P", "R">>,
      <<"P", "r", "o", "b", "a", "b", "i", "l", "i", "t", "y">>>>,
    <<<<"m", "a", "t", "h", ".", "Q", "A">>,
      <<"Q", "u", "a", "n", "t", "u", "m", " ", "A", "l", "g", "e", "b", "r", "a">>>>,
    <<<<"m", "a", "t", "h", ".", "R", "A">>,
      <<"R", "i", "n", "g", "s", " ", "a", "n", "d", " ", "A", "l", "g", "e", "b", "r", "a",
       "s">>>>,
    <<<<"m", "a", "t", "h", ".", "R", "T">>,
      <<"R", "e", "p", "r", "e", "s", "e", "n", "t", "a", "t", "i", "o", "n", " ", "T", "h",
       "e", "o", "r", "y">>>>,
    <<<<"m", "a", "t", "h", ".", "S", "G">>,
      <<"S", "y", "m", "p", "l", "e", "c", "t", "i", "c", " ", "G", "e", "o", "m", "e", "t",
       "r", "y">>>>,
    <<<<"m", "a", "t", "h", ".", "S", "P">>,
      <<"S", "p", "e", "c", "t", "r", "a", "l", " ", "T", "h", "e", "o", "r", "y">>>>,
    <<<<"m", "a", "t", "h", ".", "S", "T">>,
      <<"S", "t", "a", "t", "i", "s", "t", "i", "c", "s", " ", "T", "h", "e", "o", "r", "y">>>>,
    <<<<"a", "s", "t", "r", "o", "-", "p", "h", ".", "C", "O">>,
      <<"C", "o", "s", "m", "o", "l", "o", "g", "y", " ", "a", "n", "d", " ", "N", "o", "n",
       "g", "a", "l", "a", "c", "t", "i", "c", " ", "A", "s", "t", "r", "o", "p", "h", "y",
       "s", "i", "c", "s">>>>,
    <<<<"a", "s", "t", "r", "o", "-", "p", "h", ".", "E", "P">>,
      <<"E", "a", "r", "t", "h", " ", "a", "n", "d", " ", "P", "l", "a", "n", "e", "t", "a",
       "r", "y", " ", "A", "s", "t", "r", "o", "p", "h", "y", "s", "i", "c", "s">>>>,
    <<<<"a", "s", "t", "r", "o", "-", "p", "h", ".", "G", "A">>,
      <<"A", "s", "t", "r", "o", "p", "h", "y", "s", "i", "c", "s", " ", "o", "f", " ", "G",
       "a", "l", "a", "x", "i", "e", "s">>>>,
    <<<<"a", "s", "t", "r", "o", "-", "p", "h", ".", "H", "E">>,
      <<"H", "i", "g", "h", " ", "E", "n", "e", "r", "g", "y", " ", "A", "s", "t", "r", "o",
       "p", "h", "y", "s", "i", "c", "a", "l", " ", "P", "h", "e", "n", "o", "m", "e", "n",
       "a">>>>,
    <<<<"a", "s", "t", "r", "o", "-", "p", "h", ".", "I", "M">>,
      <<"I", "n", "s", "t", "r", "u", "m", "e", "n", "t", "a", "t", "i", "o", "n", " ", "a",
       "n", "d", " ", "M", "e", "t", "h", "o", "d", "s", " ", "f", "o", "r", " ", "A", "s",
       "t", "r", "o", "p", "h", "y", "s", "i", "c", "s">>>>,
    <<<<"a", "s", "t", "r", "o", "-", "p", "h", ".", "S", "R">>,
      <<"S", "o", "l", "a", "r", " ", "a", "n", "d", " ", "S", "t", "e", "l", "l", "a", "r",
       " ", "A", "s", "t", "r", "o", "p", "h", "y", "s", "i", "c", "s">>>>,
    <<<<"c", "o", "n", "d", "-", "m", "a", "t", ".", "d", "i", "s", "-", "n", "n">>,
      <<"D", "i", "s", "o", "r", "d", "e", "r", "e", "d", " ", "S", "y", "s", "t", "e", "m",
       "s", " ", "a", "n", "d", " ", "N", "e", "u", "r", "a", "l", " ", "N", "e", "t", "w",
       "o", "r", "k", "s">>>>,
    <<<<"c", "o", "n", "d", "-", "m", "a", "t", ".", "m", "e", "s", "-", "h", "a", "l", "l">>,
      <<"M", "e", "s", "o", "s", "c", "a", "l", "e", " ", "a", "n", "d", " ", "N", "a", "n",
       "o", "s", "c", "a", "l", "e", " ", "P", "h", "y", "s", "i", "c", "s">>>>,
    <<<<"c", "o", "n", "d", "-", "m", "a", "t", ".", "m", "t", "r", "l", "-", "s", "c", "i">>,
      <<"M", "a", "t", "e", "r", "i", "a", "l", "s", " ", "S", "c", "i", "e", "n", "c", "e">>>>,
    <<<<"c", "o", "n", "d", "-", "m", "a", "t", ".", "o", "t", "h", "e", "r">>,
      <<"O", "t", "h", "e", "r", " ", "C", "o", "n", "d", "e", "n", "s", "e", "d", " ", "M",
       "a", "t", "t", "e", "r">>>>,
    <<<<"c", "o", "n", "d", "-", "m", "a", "t", ".", "q", "u", "a", "n", "t", "-", "g", "a", "s">>,
      <<"Q", "u", "a", "n", "t", "u", "m", " ", "G", "a", "s", "e", "s">>>>,
    <<<<"c", "o", "n", "d", "-", "m", "a", "t", ".", "s", "o", "f", "t">>,
      <<"S", "o", "f", "t", " ", "C", "o", "n", "d", "e", "n", "s", "e", "d", " ", "M", "a",
       "t", "t", "e", "r">>>>,
    <<<<"c", "o", "n", "d", "-", "m", "a", "t", ".", "s", "t", "a", "t", "-", "m", "e", "c", "h">>,
      <<"S", "t", "a", "t", "i", "s", "t", "i", "c", "a", "l", " ", "M", "e", "c", "h", "a",
       "n", "i", "c", "s">>>>,
    <<<<"c", "o", "n", "d", "-", "m", "a", "t", ".", "s", "t", "r", "-", "e", "l">>,
      <<"S", "t", "r", "o", "n", "g", "l", "y", " ", "C", "o", "r", "r", "e", "l", "a", "t",
       "e", "d", " ", "E", "l", "e", "c", "t", "r", "o", "n", "s">>>>,
    <<<<"c", "o", "n", "d", "-", "m", "a", "t", ".", "s", "u", "p", "r", "-", "c", "o", "n">>,
      <<"S", "u", "p", "e", "r", "c", "o", "n", "d", "u", "c", "t", "i", "v", "i", "t", "y">>>>,
    <<<<"g", "r", "-", "q", "c">>,
      <<"G", "e", "n", "e", "r", "a", "l", " ", "R", "e", "l", "a", "t", "i", "v", "i", "t",
       "y", " ", "a", "n", "d", " ", "Q", "u", "a", "n", "t", "u", "m", " ", "C", "o", "s",
       "m", "o", "l", "o", "g", "y">>>>,
    <<<<"h", "e", "p", "-", "e", "x">>,
      <<"H", "i", "g", "h", " ", "E", "n", "e", "r", "g", "y", " ", "P", "h", "y", "s", "i",
       "c", "s", " ", "-", " ", "E", "x", "p", "e", "r", "i", "m", "e", "n", "t">>>>,
    <<<<"h", "e", "p", "-", "l", "a", "t">>,
      <<"H", "i", "g", "h", " ", "E", "n", "e", "r", "g", "y", " ", "P", "h", "y", "s", "i",
       "c", "s", " ", "-", " ", "L", "a", "t", "t", "i", "c", "e">>>>,
    <<<<"h", "e", "p", "-", "p", "h">>,
      <<"H", "i", "g", "h", " ", "E", "n", "e", "r", "g", "y", " ", "P", "h", "y", "s", "i",
       "c", "s", " ", "-", " ", "P", "h", "e", "n", "o", "m", "e", "n", "o", "l", "o", "g",
       "y">>>>,
    <<<<"h", "e", "p", "-", "t", "h">>,
      <<"H", "i", "g", "h", " ", "E", "n", "e", "r", "g", "y", " ", "P", "h", "y", "s", "i",
       "c", "s", " ", "-", " ", "T", "h", "e", "o", "r", "y">>>>,
    <<<<"n", "u", "c", "l", "-", "e", "x">>,
      <<"N", "u", "c", "l", "e", "a", "r", " ", "E", "x", "p", "e", "r", "i", "m", "e", "n",
       "t">>>>,
    <<<<"n", "u", "c", "l", "-", "t", "h">>,
      <<"N", "u", "c", "l", "e", "a", "r", " ", "T", "h", "e", "o", "r", "y">>>>,
    <<<<"p", "h", "y", "s", "i", "c", "s", ".", "a", "c", "c", "-", "p", "h">>,
      <<"A", "c", "c", "e", "l", "e", "r", "a", "t", "o", "r", " ", "P", "h", "y", "s", "i",
       "c", "s">>>>,
    <<<<"p", "h", "y", "s", "i", "c", "s", ".", "a", "o", "-", "p", "h">>,
      <<"A", "t", "m", "o", "s", "p", "h", "e", "r", "i", "c", " ", "a", "n", "d", " ", "O",
       "c", "e", "a", "n", "i", "c", " ", "P", "h", "y", "s", "i", "c", "s">>>>,
    <<<<"p", "h", "y", "s", "i", "c", "s", ".", "a", "p", "p", "-", "p", "h">>,
      <<"A", "p", "p", "l", "i", "e", "d", " ", "P", "h", "y", "s", "i", "c", "s">>>>,
    <<<<"p", "h", "y", "s", "i", "c", "s", ".", "a", "t", "m", "-", "c", "l", "u", "s">>,
      <<"A", "t", "o", "m", "i", "c", " ", "a", "n", "d", " ", "M", "o", "l", "e", "c", "u",
       "l", "a", "r", " ", "C", "l", "u", "s", "t", "e", "r", "s">>>>,
    <<<<"p", "h", "y", "s", "i", "c", "s", ".", "a", "t", "o", "m", "-", "p", "h">>,
      <<"A", "t", "o", "m", "i", "c", " ", "P", "h", "y", "s", "i", "c", "s">>>>,
    <<<<"p", "h", "y", "s", "i", "c", "s", ".", "b", "i", "o", "-", "p", "h">>,
      <<"B", "i", "o", "l", "o", "g", "i", "c", "a", "l", " ", "P", "h", "y", "s", "i", "c",
       "s">>>>,
    <<<<"p", "h", "y", "s", "i", "c", "s", ".", "c", "h", "e", "m", "-", "p", "h">>,
      <<"C", "h", "e", "m", "i", "c", "a", "l", " ", "P", "h", "y", "s", "i", "c", "s">>>>,
    <<<<"p", "h", "y", "s", "i", "c", "s", ".", "c", "l", "a", "s", "s", "-", "p", "h">>,
      <<"C", "l", "a", "s", "s", "i", "c", "a", "l", " ", "P", "h", "y", "s", "i", "c", "s">>>>,
    <<<<"p", "h", "y", "s", "i", "c", "s", ".", "c", "o", "m", "p", "-", "p", "h">>,
      <<"C", "o", "m", "p", "u", "t", "a", "t", "i", "o", "n", "a", "l", " ", "P", "h", "y",
       "s", "i", "c", "s">>>>,
    <<<<"p", "h", "y", "s", "i", "c", "s", ".", "d", "a", "t", "a", "-", "a", "n">>,
      <<"D", "a", "t", "a", " ", "A", "n", "a", "l", "y", "s", "i", "s", ",", " ", "S", "t",
       "a", "t", "i", "s", "t", "i", "c", "s", " ", "a", "n", "d", " ", "P", "r", "o", "b",
       "a", "b", "i", "l", "i", "t", "y">>>>,
    <<<<"p", "h", "y", "s", "i", "c", "s", ".", "e", "d", "-", "p", "h">>,
      <<"P", "h", "y", "s", "i", "c", "s", " ", "E", "d", "u", "c", "a", "t", "i", "o", "n">>>>,
    <<<<"p", "h", "y", "s", "i", "c", "s", ".", "f", "l", "u", "-", "d", "y", "n">>,
      <<"F", "l", "u", "i", "d", " ", "D", "y", "n", "a", "m", "i", "c", "s">>>>,
    <<<<"p", "h", "y", "s", "i", "c", "s", ".", "g", "e", "n", "-", "p", "h">>,
      <<"G", "e", "n", "e", "r", "a", "l", " ", "P", "h", "y", "s", "i", "c", "s">>>>,
    <<<<"p", "h", "y", "s", "i", "c", "s", ".", "g", "e", "o", "-", "p", "h">>,
      <<"G", "e", "o", "p", "h", "y", "s", "i", "c", "s">>>>,
    <<<<"p", "h", "y", "s", "i", "c", "s", ".", "h", "i", "s", "t", "-", "p", "h">>,
      <<"H", "i", "s", "t", "o", "r", "y", " ", "a", "n", "d", " ", "P", "h", "i", "l", "o",
       "s", "o", "p", "h", "y", " ", "o", "f", " ", "P", "h", "y", "s", "i", "c", "s">>>>,
    <<<<"p", "h", "y", "s", "i", "c", "s", ".", "i", "n", "s", "-", "d", "e", "t">>,
      <<"I", "n", "s", "t", "r", "u", "m", "e", "n", "t", "a", "t", "i", "o", "n", " ", "a",
       "n", "d", " ", "D", "e", "t", "e", "c", "t", "o", "r", "s">>>>,
    <<<<"p", "h", "y", "s", "i", "c", "s", ".", "m", "e", "d", "-", "p", "h">>,
      <<"M", "e", "d", "i", "c", "a", "l", " ", "P", "h", "y", "s", "i", "c", "s">>>>,
    <<<<"p", "h", "y", "s", "i", "c", "s", ".", "o", "p", "t", "i", "c", "s">>,
      <<"O", "p", "t", "i", "c", "s">>>>,
    <<<<"p", "h", "y", "s", "i", "c", "s", ".", "p", "l", "a", "s", "m", "-", "p", "h">>,
      <<"P", "l", "a", "s", "m", "a", " ", "P", "h", "y", "s", "i", "c", "s">>>>,
    <<<<"p", "h", "y", "s", "i", "c", "s", ".", "p", "o", "p", "-", "p", "h">>,
      <<"P", "o", "p", "u", "l", "a", "r", " ", "P", "h", "y", "s", "i", "c", "s">>>>,
    <<<<"p", "h", "y", "s", "i", "c", "s", ".", "s", "o", "c", "-", "p", "h">>,
      <<"P", "h", "y", "s", "i", "c", "s", " ", "a", "n", "d", " ", "S", "o", "c", "i", "e",
       "t", "y">>>>,
    <<<<"p", "h", "y", "s", "i", "c", "s", ".", "s", "p", "a", "c", "e", "-", "p", "h">>,
      <<"S", "p", "a", "c", "e", " ", "P", "h", "y", "s", "i", "c", "s">>>>,
    <<<<"q", "u", "a", "n", "t", "-", "p", "h">>,
      <<"Q", "u", "a", "n", "t", "u", "m", " ", "P", "h", "y", "s", "i", "c", "s">>>>,
    <<<<"n", "l", "i", "n", ".", "A", "O">>,
      <<"A", "d", "a", "p", "t", "a", "t", "i", "o", "n", " ", "a", "n", "d", " ", "S", "e",
       "l", "f", "-", "O", "r", "g", "a", "n", "i", "z", "i", "n", "g", " ", "S", "y", "s",
       "t", "e", "m", "s">>>>,
    <<<<"n", "l", "i", "n", ".", "C", "D">>,
      <<"C", "h", "a", "o", "t", "i", "c", " ", "D", "y", "n", "a", "m", "i", "c", "s">>>>,
    <<<<"n", "l", "i", "n", ".", "C", "G">>,
      <<"C", "e", "l", "l", "u", "l", "a", "r", " ", "A", "u", "t", "o", "m", "a", "t", "a",
       " ", "a", "n", "d", " ", "L", "a", "t", "t", "i", "c", "e", " ", "G", "a", "s", "e",
       "s">>>>,
    <<<<"n", "l", "i", "n", ".", "P", "S">>,
      <<"P", "a", "t", "t", "e", "r", "n", " ", "F", "o", "r", "m", "a", "t", "i", "o", "n",
       " ", "a", "n", "d", " ", "S", "o", "l", "i", "t", "o", "n", "s">>>>,
    <<<<"n", "l", "i", "n", ".", "S", "I">>,
      <<"E", "x", "a", "c", "t", "l", "y", " ", "S", "o", "l", "v", "a", "b", "l", "e", " ",
       "a", "n", "d", " ", "I", "n", "t", "e", "g", "r", "a", "b", "l", "e", " ", "S", "y",
       "s", "t", "e", "m", "s">>>>,
    <<<<"q", "-", "b", "i", "o", ".", "B", "M">>,
      <<"B", "i", "o", "m", "o", "l", "e", "c", "u", "l", "e", "s">>>>,
    <<<<"q", "-", "b", "i", "o", ".", "C", "B">>,
      <<"C", "e", "l", "l", " ", "B", "e", "h", "a", "v", "i", "o", "r">>>>,
    <<<<"q", "-", "b", "i", "o", ".", "G", "N">>,
      <<"G", "e", "n", "o", "m", "i", "c", "s">>>>,
    <<<<"q", "-", "b", "i", "o", ".", "M", "N">>,
      <<"M", "o", "l", "e", "c", "u", "l", "a", "r", " ", "N", "e", "t", "w", "o", "r", "k",
       "s">>>>,
    <<<<"q", "-", "b", "i", "o", ".", "N", "C">>,
      <<"N", "e", "u", "r", "o", "n", "s", " ", "a", "n", "d", " ", "C", "o", "g", "n", "i",
       "t", "i", "o", "n">>>>,
    <<<<"q", "-", "b", "i", "o", ".", "O", "T">>,
      <<"O", "t", "h", "e", "r", " ", "Q", "u", "a", "n", "t", "i", "t", "a", "t", "i", "v",
       "e", " ", "B", "i", "o", "l", "o", "g", "y">>>>,
    <<<<"q", "-", "b", "i", "o", ".", "P", "E">>,
      <<"P", "o", "p", "u", "l", "a", "t", "i", "o", "n", "s", " ", "a", "n", "d", " ", "E",
       "v", "o", "l", "u", "t", "i", "o", "n">>>>,
    <<<<"q", "-", "b", "i", "o", ".", "Q", "M">>,
      <<"Q", "u", "a", "n", "t", "i", "t", "a", "t", "i", "v", "e", " ", "M", "e", "t", "h",
       "o", "d", "s">>>>,
    <<<<"q", "-", "b", "i", "o", ".", "S", "C">>,
      <<"S", "u", "b", "c", "e", "l", "l", "u", "l", "a", "r", " ", "P", "r", "o", "c", "e",
       "s", "s", "e", "s">>>>,
    <<<<"q", "-", "b", "i", "o", ".", "T", "O">>,
      <<"T", "i", "s", "s", "u", "e", "s", " ", "a", "n", "d", " ", "O", "r", "g", "a", "n",
       "s">>>>,
    <<<<"q", "-", "f", "i", "n", ".", "C", "P">>,
      <<"C", "o", "m", "p", "u", "t", "a", "t", "i", "o", "n", "a", "l", " ", "F", "i", "n",
       "a", "n", "c", "e">>>>,
    <<<<"q", "-", "f", "i", "n", ".", "E", "C">>,
      <<"E", "c", "o", "n", "o", "m", "i", "c", "s">>>>,
    <<<<"q", "-", "f", "i", "n", ".", "G", "N">>,
      <<"G", "e", "n", "e", "r", "a", "l", " ", "F", "i", "n", "a", "n", "c", "e">>>>,
    <<<<"q", "-", "f", "i", "n", ".", "M", "F">>,
      <<"M", "a", "t", "h", "e", "m", "a", "t", "i", "c", "a", "l", " ", "F", "i", "n", "a",
       "n", "c", "e">>>>,
    <<<<"q", "-", "f", "i", "n", ".", "P", "M">>,
      <<"P", "o", "r", "t", "f", "o", "l", "i", "o", " ", "M", "a", "n", "a", "g", "e", "m",
       "e", "n", "t">>>>,
    <<<<"q", "-", "f", "i", "n", ".", "P", "R">>,
      <<"P", "r", "i", "c", "i", "n", "g", " ", "o", "f", " ", "S", "e", "c", "u", "r", "i",
       "t", "i", "e", "s">>>>,
    <<<<"q", "-", "f", "i", "n", ".", "R", "M">>,
      <<"R", "i", "s", "k", " ", "M", "a", "n", "a", "g", "e", "m", "e", "n", "t">>>>,
    <<<<"q", "-", "f", "i", "n", ".", "S", "T">>,
      <<"S", "t", "a", "t", "i", "s", "t", "i", "c", "a", "l", " ", "F", "i", "n", "a", "n",
       "c", "e">>>>,
    <<<<"q", "-", "f", "i", "n", ".", "T", "R">>,
      <<"T", "r", "a", "d", "i", "n", "g", " ", "a", "n", "d", " ", "M", "a", "r", "k", "e",
       "t", " ", "M", "i", "c", "r", "o", "s", "t", "r", "u", "c", "t", "u", "r", "e">>>>,
    <<<<"s", "t", "a", "t", ".", "A", "P">>,
      <<"A", "p", "p", "l", "i", "c", "a", "t", "i", "o", "n", "s">>>>,
    <<<<"s", "t", "a", "t", ".", "C", "O">>,
      <<"C", "o", "m", "p", "u", "t", "a", "t", "i", "o", "n">>>>,
    <<<<"s", "t", "a", "t", ".", "M", "E">>,
      <<"M", "e", "t", "h", "o", "d", "o", "l", "o", "g", "y">>>>,
    <<<<"s", "t", "a", "t", ".", "M", "L">>,
      <<"M", "a", "c", "h", "i", "n", "e", " ", "L", "e", "a", "r", "n", "i", "n", "g">>>>,
    <<<<"s", "t", "a", "t", ".", "O", "T">>,
      <<"O", "t", "h", "e", "r", " ", "S", "t", "a", "t", "i", "s", "t", "i", "c", "s">>>>,
    <<<<"s", "t", "a", "t", ".", "T", "H">>,
      <<"S", "t", "a", "t", "i", "s", "t", "i", "c", "s", " ", "T", "h", "e", "o", "r", "y">>>> >>

CategoryCodes == {CategoryInserts[i][1] : i \in DOMAIN CategoryInserts}

\* the HashMap: a later insert of a code replaces an earlier one
get_category_map ==
    [code \in CategoryCodes |->
        LET at == {i \in DOMAIN CategoryInserts : CategoryInserts[i][1] = code}
            latest == CHOOSE i \in at : \A j \in at : j <= i
        IN  CategoryInserts[latest][2]]

LowerCase ==
    <<"a", "b", "c", "d", "e", "f", "g", "h", "i", "j", "k", "l", "m",
      "n", "o", "p", "q", "r", "s", "t", "u", "v", "w", "x", "y", "z">>

UpperCase ==
    <<"A", "B", "C", "D", "E", "F", "G", "H", "I", "J", "K", "L", "M",
      "N", "O", "P", "Q", "R", "S", "T", "U", "V", "W", "X", "Y", "Z">>

\* str::to_uppercase, on the characters of the model (ASCII)
to_uppercase(s) ==
    [i \in 1..Len(s) |->
        IF \E k \in 1..26 : LowerCase[k] = s[i]
        THEN UpperCase[CHOOSE k \in 1..26 : LowerCase[k] = s[i]]
        ELSE s[i]]

\* s.split(c).next(): s up to the first c, all of s when it has none
RECURSIVE SplitNext(_, _)
SplitNext(s, c) ==
    IF s = <<>> \/ Head(s) = c THEN <<>>
    ELSE <<Head(s)>> \o SplitNext(Tail(s), c)

\* format_category with a fault: a code that is not in the map is upper-cased whole
FormatCategoryWhole(category) ==
    IF category \in DOMAIN get_category_map
    THEN get_category_map[category]
    ELSE to_uppercase(category)

\* fn format_category
format_category(category) ==
    IF category \in DOMAIN get_category_map
    THEN get_category_map[category]
    ELSE to_uppercase(SplitNext(category, "."))

(***************************************************************************)
(* SpecCategory: one call of format_category, on a code of the map or on   *)
(* any string of up to MaxCodeLen characters of CodeChars, or on one of    *)
(* OtherCodes.                                                             *)
(***************************************************************************)
CodeChars == {"c", "s", ".", "Z", "-"}

OtherCodes ==
    { <<"u", "n", "k", "n", "o", "w", "n", ".", "c", "a", "t", "e", "g", "o", "r", "y">>,
      <<"U", "n", "k", "n", "o", "w", "n">>,
      <<"c", "s", ".", "a", "i">>,
      <<"c", "s", ".", "A", "I", ".", "x">>,
      <<"q", "-", "b", "i", "o", ".", "N", "C", " ">> }

CategoryInputs ==
    CategoryCodes \cup OtherCodes \cup UNION {[1..n -> CodeChars] : n \in 0..MaxCodeLen}

InitCategory ==
    /\ tables = NoTables
    /\ written = [n \in TableNames |-> NoWrite]
    /\ last = NoCall
    /\ db_path = None
    /\ temp_files = NoFiles
    /\ calls = NoCalls
    /\ arxiv \in {[op |-> "call", category |-> c, formatted |-> <<>>] : c \in CategoryInputs}

FormatCategory ==
    /\ arxiv.op = "call"
    /\ arxiv' = [arxiv EXCEPT !.op = "format_category",
                              !.formatted = format_category(arxiv.category)]
    /\ UNCHANGED <<tables, written, last, db_path, temp_files, calls>>

NextCategory == FormatCategory

SpecCategory == InitCategory /\ [][NextCategory]_vars

(***************************************************************************)
(* parse_arxiv_xml.  The argument is the sequence of events that the       *)
(* reader delivers for the text: Decl, Start, End, Empty and Text events.  *)
(* An attribute of an element is None when the element has none of that    *)
(* name.                                                                   *)
(***************************************************************************)
Event(kind, name, term, title, href, text) ==
    [kind |-> kind, name |-> name, term |-> term, title |-> title, href |-> href,
     text |-> text]

DeclEv == Event("Decl", "xml", None, None, None, <<>>)
StartEv(name) == Event("Start", name, None, None, None, <<>>)
EndEv(name) == Event("End", name, None, None, None, <<>>)
EmptyEv(name, term, title, href) == Event("Empty", name, term, title, href, <<>>)
TextEv(text) == Event("Text", "", None, None, None, text)

\* the element of one text: <name>text</name>
Element(name, text) == <<StartEv(name), TextEv(text), EndEv(name)>>

\* struct ArxivPaper
ArxivPaper(id, title, authors, category, published_date, abstract_text, download_url, pdf_url, categories) ==
    [id |-> id, title |-> title, authors |-> authors, category |-> category,
     published_date |-> published_date, abstract_text |-> abstract_text,
     download_url |-> download_url, pdf_url |-> pdf_url, categories |-> categories]

\* name.ends_with("primary_category"), on the element names of the model
ends_with_primary_category(name) ==
    name \in {"primary_category", "arxiv:primary_category"}

\* the predefined entities of XML
Entities ==
    { <<<<"a", "m", "p">>, "&">>, <<<<"l", "t">>, "<">>, <<<<"g", "t">>, ">">>,
      <<<<"a", "p", "o", "s">>, "'">>, <<<<"q", "u", "o", "t">>, "\"">> }

\* BytesText::unescape: every &name; is replaced by the character it names;
\* a name that is not predefined, or a '&' without ';', is an error
RECURSIVE unescape(_)
unescape(text) ==
    IF text = <<>> THEN [ok |-> TRUE, text |-> <<>>]
    ELSE IF Head(text) # "&"
    THEN LET rest == unescape(Tail(text))
         IN  [ok |-> rest.ok, text |-> <<Head(text)>> \o rest.text]
    ELSE LET ends == {i \in 2..Len(text) : text[i] = ";"}
         IN  IF ends = {} THEN [ok |-> FALSE, text |-> <<>>]
             ELSE LET end == CHOOSE i \in ends : \A j \in ends : i <= j
                      name == SubSeq(text, 2, end - 1)
                      known == {en \in Entities : en[1] = name}
                  IN  IF known = {} THEN [ok |-> FALSE, text |-> <<>>]
                      ELSE LET rest == unescape(SubSeq(text, end + 1, Len(text)))
                           IN  [ok |-> rest.ok,
                                text |-> <<(CHOOSE en \in known : TRUE)[2]>> \o rest.text]

Whitespace == {" ", "\n", "\t"}

\* str::trim
RECURSIVE trim_start(_)
trim_start(s) ==
    IF s # <<>> /\ Head(s) \in Whitespace THEN trim_start(Tail(s)) ELSE s

RECURSIVE trim_end(_)
trim_end(s) ==
    IF s # <<>> /\ s[Len(s)] \in Whitespace THEN trim_end(SubSeq(s, 1, Len(s) - 1)) ELSE s

trim(s) == trim_end(trim_start(s))

\* does s start with the string pat
starts_with(s, pat) == Len(s) >= Len(pat) /\ SubSeq(s, 1, Len(pat)) = pat

\* str::replace(from, to): the matches of from, found from the left and not
\* overlapping, are replaced by to
RECURSIVE replace(_, _, _)
replace(s, from, to) ==
    IF s = <<>> THEN <<>>
    ELSE IF starts_with(s, from)
    THEN to \o replace(SubSeq(s, Len(from) + 1, Len(s)), from, to)
    ELSE <<Head(s)>> \o replace(Tail(s), from, to)

\* str::split(pat): the pieces of s between the matches of pat
RECURSIVE split(_, _, _)
split(s, pat, piece) ==
    IF s = <<>> THEN <<piece>>
    ELSE IF starts_with(s, pat)
    THEN <<piece>> \o split(SubSeq(s, Len(pat) + 1, Len(s)), pat, <<>>)
    ELSE split(Tail(s), pat, piece \o <<Head(s)>>)

\* Iterator::nth(n) on the pieces
nth(pieces, n) == IF Len(pieces) > n THEN Some(pieces[n + 1]) ELSE None

\* authors.join(", ")
RECURSIVE join(_, _)
join(strings, sep) ==
    IF strings = <<>> THEN <<>>
    ELSE IF Len(strings) = 1 THEN strings[1]
    ELSE strings[1] \o sep \o join(Tail(strings), sep)

Unknown == <<"U", "n", "k", "n", "o", "w", "n">>

\* format!("https://arxiv.org/pdf/{}.pdf", paper.id)
PdfFallback(id) ==
    <<"h", "t", "t", "p", "s", ":", "/", "/", "a", "r", "x", "i", "v", ".", "o", "r", "g", "/",
        "p", "d", "f", "/">>
    \o id \o <<".", "p", "d", "f">>

\* the local variables of parse_arxiv_xml before the loop, the reader on xml
ParseLocals(xml) ==
    [op |-> "parse", xml |-> xml, pos |-> 1, papers |-> <<>>, current_paper |-> None,
     current_text |-> <<>>, in_entry |-> FALSE, authors |-> <<>>, categories |-> <<>>,
     primary_category |-> <<>>, pdf_url |-> <<>>]

\* OnStart with a fault: at the start of an entry the lists and the strings
\* of the entry before are kept
OnStartKeeps(st, e) ==
    IF e.name = "entry"
    THEN [st EXCEPT !.current_text = <<>>, !.in_entry = TRUE,
                    !.current_paper = Some(ArxivPaper(<<>>, <<>>, <<>>, <<>>, <<>>, <<>>,
                                                      <<>>, <<>>, <<>>))]
    ELSE [st EXCEPT !.current_text = <<>>]

\* Event::Start
OnStart(st, e) ==
    IF e.name = "entry"
    THEN [st EXCEPT !.current_text = <<>>, !.in_entry = TRUE,
                    !.current_paper = Some(ArxivPaper(<<>>, <<>>, <<>>, <<>>, <<>>, <<>>,
                                                      <<>>, <<>>, <<>>)),
                    !.authors = <<>>, !.categories = <<>>,
                    !.primary_category = <<>>, !.pdf_url = <<>>]
    ELSE [st EXCEPT !.current_text = <<>>]

\* Event::Empty
OnEmpty(st, e) ==
    IF e.name = "category"
    THEN IF e.term # None THEN [st EXCEPT !.categories = Append(@, e.term[1])] ELSE st
    ELSE IF ends_with_primary_category(e.name)
    THEN IF e.term # None THEN [st EXCEPT !.primary_category = e.term[1]] ELSE st
    ELSE IF e.name = "link"
    THEN IF e.title # None /\ e.title[1] = <<"p", "d", "f">> /\ e.href # None
         THEN [st EXCEPT !.pdf_url = e.href[1]]
         ELSE st
    ELSE st

\* Event::Text; the error of unescape is returned by the function
OnText(st, e) ==
    LET text == unescape(e.text)
    IN  IF text.ok THEN [st EXCEPT !.current_text = @ \o text.text]
        ELSE [st EXCEPT !.op = "failed"]

\* the end of an entry: the paper is finished and pushed
FinishEntry(st, paper) ==
    LET joined == join(st.authors, <<",", " ">>)
        main_category == IF st.primary_category # <<>> THEN st.primary_category
                         ELSE IF st.categories # <<>> THEN st.categories[1]
                         ELSE Unknown
        url == IF st.pdf_url # <<>> THEN st.pdf_url ELSE PdfFallback(paper.id)
    IN  [paper EXCEPT !.authors = IF joined = <<>> THEN Unknown ELSE joined,
                      !.category = format_category(main_category),
                      !.categories = st.categories,
                      !.pdf_url = url, !.download_url = url]

\* the fields that the end of an element inside an entry sets
OnEndField(st, e, paper) ==
    IF e.name = "id"
    THEN LET id_part == nth(split(st.current_text, <<"/", "a", "b", "s", "/">>, <<>>), 1)
         IN  IF id_part # None
             THEN [paper EXCEPT !.id = split(id_part[1], <<"v">>, <<>>)[1]]
             ELSE paper
    ELSE IF e.name = "title"
    THEN [paper EXCEPT !.title =
            replace(replace(trim(st.current_text), <<"\n">>, <<" ">>), <<" ", " ">>, <<" ">>)]
    ELSE IF e.name = "summary"
    THEN [paper EXCEPT !.abstract_text =
            replace(replace(trim(st.current_text), <<"\n">>, <<" ">>), <<" ", " ">>, <<" ">>)]
    ELSE IF e.name = "published"
    THEN [paper EXCEPT !.published_date = split(st.current_text, <<"T">>, <<>>)[1]]
    ELSE paper

\* OnEnd with a fault: a finished paper is put before the papers of the
\* earlier entries
OnEndNewestFirst(st, e) ==
    IF st.in_entry /\ st.current_paper # None
    THEN IF e.name = "name"
         THEN [st EXCEPT !.authors = Append(@, trim(st.current_text)), !.current_text = <<>>]
         ELSE IF e.name = "entry"
         THEN [st EXCEPT !.papers = <<FinishEntry(st, st.current_paper[1])>> \o @,
                         !.current_paper = None, !.in_entry = FALSE, !.current_text = <<>>]
         ELSE [st EXCEPT !.current_paper = Some(OnEndField(st, e, st.current_paper[1])),
                         !.current_text = <<>>]
    ELSE [st EXCEPT !.current_text = <<>>]

\* Event::End
OnEnd(st, e) ==
    IF st.in_entry /\ st.current_paper # None
    THEN IF e.name = "name"
         THEN [st EXCEPT !.authors = Append(@, trim(st.current_text)), !.current_text = <<>>]
         ELSE IF e.name = "entry"
         THEN [st EXCEPT !.papers = Append(@, FinishEntry(st, st.current_paper[1])),
                         !.current_paper = None, !.in_entry = FALSE, !.current_text = <<>>]
         ELSE [st EXCEPT !.current_paper = Some(OnEndField(st, e, st.current_paper[1])),
                         !.current_text = <<>>]
    ELSE [st EXCEPT !.current_text = <<>>]

\* one turn of the loop: reader.read_event_into, the match, buf.clear()
ReadEvent(st) ==
    LET e == st.xml[st.pos]
        next == IF e.kind = "Start" THEN OnStart(st, e)
                ELSE IF e.kind = "Empty" THEN OnEmpty(st, e)
                ELSE IF e.kind = "Text" THEN OnText(st, e)
                ELSE IF e.kind = "End" THEN OnEnd(st, e)
                ELSE st
    IN  IF next.op = "failed" THEN next ELSE [next EXCEPT !.pos = @ + 1]

\* the loop: 2^k turns of it, or as many as there are up to Event::Eof or
\* to an error
RECURSIVE Turns(_, _)
Turns(st, k) ==
    IF k = 0
    THEN IF st.op = "parse" /\ st.pos <= Len(st.xml) THEN ReadEvent(st) ELSE st
    ELSE LET half == Turns(st, k - 1)
         IN  IF half.op = "parse" /\ half.pos <= Len(half.xml) THEN Turns(half, k - 1)
             ELSE half

\* the least k with 2^k >= n
RECURSIVE Doublings(_)
Doublings(n) == IF n <= 1 THEN 0 ELSE 1 + Doublings((n + 1) \div 2)

\* fn parse_arxiv_xml: the loop up to Event::Eof and Ok(papers), or the error
parse_arxiv_xml(xml_content) ==
    LET st == Turns(ParseLocals(xml_content), Doublings(Len(xml_content)))
    IN  [ok |-> st.op = "parse", papers |-> IF st.op = "parse" THEN st.papers ELSE <<>>]

(***************************************************************************)
(* SpecFeed: one call of parse_arxiv_xml, an action per kind of event,     *)
(* on a feed of up to MaxEntries entries with feed-level elements before,  *)
(* between and after them.                                                 *)
(***************************************************************************)
\* the feed's own title, id and author, and empty elements at feed level
FeedLevel ==
    Element("title", <<"Q", ":", " ", "a", "&", "a", "m", "p", ";", "b">>)
    \o Element("id", <<"h", "t", "t", "p", ":", "/", "/", "a", "r", "x", "i", "v", ".", "o", "r", "g", "/", "a",
        "b", "s", "/", "0", "0", "0", "0", ".", "0", "0", "0", "0", "v", "9">>)
    \o <<StartEv("author")>> \o Element("name", <<"F", "e", "e", "d">>) \o <<EndEv("author")>>
    \o <<EmptyEv("category", Some(<<"f", "d", ".", "X", "X">>), None, None),
         EmptyEv("arxiv:primary_category", Some(<<"c", "s", ".", "D", "B">>), None, None),
         EmptyEv("link", None, Some(<<"p", "d", "f">>), Some(<<"f", "e", "e", "d", ".", "p", "d", "f">>))>>

Gaps == {<<>>, FeedLevel}

\* an entry as the arXiv API gives it
FullEntry ==
    Element("id", <<"h", "t", "t", "p", ":", "/", "/", "a", "r", "x", "i", "v", ".", "o", "r", "g", "/", "a",
        "b", "s", "/", "2", "3", "1", "1", ".", "1", "8", "7", "7", "5", "v", "2">>)
    \o Element("published", <<"2", "0", "2", "3", "-", "1", "1", "-", "3", "0", "T", "1", "8", ":", "5", "9", ":", "5",
        "9", "Z">>)
    \o Element("title", <<" ", "G", "P", "T", "-", "4", "\n", " ", " ", "R", "e", "p", "o", "r", "t", " ">>)
    \o Element("summary", <<"W", "e", " ", " ", "p", "r", "e", "s", "e", "n", "t">>)
    \o <<StartEv("author"), TextEv(<<"\n">>)>> \o Element("name", <<"O", "p", "e", "n", "A", "I", " ", "T", "e", "a", "m">>)
    \o <<TextEv(<<"\n">>), EndEv("author")>>
    \o <<StartEv("author")>> \o Element("name", <<" ", "R", ".", " ", "S", ".", " ">>) \o <<EndEv("author")>>
    \o <<EmptyEv("link", None, Some(<<"d", "o", "i">>), Some(<<"h", "t", "t", "p", ":", "/", "/", "d", "x", ".", "d", "o", "i", ".", "o", "r", "g", "/",
        "1">>)),
         EmptyEv("arxiv:primary_category", Some(<<"c", "s", ".", "C", "L">>), None, None),
         EmptyEv("category", Some(<<"c", "s", ".", "C", "L">>), None, None),
         EmptyEv("category", Some(<<"c", "s", ".", "A", "I">>), None, None),
         EmptyEv("link", None, None, Some(<<"h", "t", "t", "p", ":", "/", "/", "a", "r", "x", "i", "v", ".", "o", "r", "g", "/", "a",
        "b", "s", "/", "2", "3", "1", "1", ".", "1", "8", "7", "7", "5", "v", "2">>)),
         EmptyEv("link", None, Some(<<"p", "d", "f">>), Some(<<"h", "t", "t", "p", ":", "/", "/", "a", "r", "x", "i", "v", ".", "o", "r", "g", "/", "p",
        "d", "f", "/", "2", "3", "1", "1", ".", "1", "8", "7", "7", "5", "v", "2", ".", "p", "d",
        "f">>))>>

\* an entry of an id, one author and one category that is not in the map
SparseEntry ==
    Element("id", <<"h", "t", "t", "p", ":", "/", "/", "a", "r", "x", "i", "v", ".", "o", "r", "g", "/", "a",
        "b", "s", "/", "h", "e", "p", "-", "t", "h", "/", "9", "9", "0", "1", "0", "0", "1", "v",
        "1">>)
    \o <<StartEv("author")>> \o Element("name", <<"J", "a", "n", "e">>) \o <<EndEv("author")>>
    \o <<EmptyEv("category", Some(<<"z", "z", ".", "Q">>), None, None),
         EmptyEv("category", None, None, None)>>

\* an entry whose title has an entity that XML does not define
BadEntry == Element("title", <<"a", " ", "&", "n", "b", "s", "p", ";", " ", "b">>)

EntryBodies == {<<>>, FullEntry, SparseEntry, BadEntry}

Entry(body) == <<StartEv("entry")>> \o body \o <<EndEv("entry")>>

\* the feeds of n entries
RECURSIVE FeedBodies(_)
FeedBodies(n) ==
    IF n = 0 THEN Gaps
    ELSE {b \o Entry(e) \o g : b \in FeedBodies(n - 1), e \in EntryBodies, g \in Gaps}

Feed(body) == <<DeclEv, StartEv("feed")>> \o body \o <<EndEv("feed")>>

Feeds == {Feed(b) : b \in UNION {FeedBodies(n) : n \in 0..MaxEntries}}

InitFeed ==
    /\ tables = NoTables
    /\ written = [n \in TableNames |-> NoWrite]
    /\ last = NoCall
    /\ db_path = None
    /\ temp_files = NoFiles
    /\ calls = NoCalls
    /\ arxiv \in {ParseLocals(xml) : xml \in Feeds}

Reading(kind) ==
    /\ arxiv.op = "parse"
    /\ arxiv.pos <= Len(arxiv.xml)
    /\ arxiv.xml[arxiv.pos].kind = kind

ParseStart ==
    /\ Reading("Start")
    /\ arxiv' = ReadEvent(arxiv)
    /\ UNCHANGED <<tables, written, last, db_path, temp_files, calls>>

ParseEmpty ==
    /\ Reading("Empty")
    /\ arxiv' = ReadEvent(arxiv)
    /\ UNCHANGED <<tables, written, last, db_path, temp_files, calls>>

ParseText ==
    /\ Reading("Text")
    /\ arxiv' = ReadEvent(arxiv)
    /\ UNCHANGED <<tables, written, last, db_path, temp_files, calls>>

ParseEnd ==
    /\ Reading("End")
    /\ arxiv' = ReadEvent(arxiv)
    /\ UNCHANGED <<tables, written, last, db_path, temp_files, calls>>

\* _ => {}: the declaration
ParseOther ==
    /\ Reading("Decl")
    /\ arxiv' = ReadEvent(arxiv)
    /\ UNCHANGED <<tables, written, last, db_path, temp_files, calls>>

\* Event::Eof => break; Ok(papers)
ParseEof ==
    /\ arxiv.op = "parse"
    /\ arxiv.pos > Len(arxiv.xml)
    /\ arxiv' = [arxiv EXCEPT !.op = "parsed"]
    /\ UNCHANGED <<tables, written, last, db_path, temp_files, calls>>

NextFeed ==
    \/ ParseStart
    \/ ParseEmpty
    \/ ParseText
    \/ ParseEnd
    \/ ParseOther
    \/ ParseEof

SpecFeed == InitFeed /\ [][NextFeed]_vars

(***************************************************************************)
(* SpecPaperId: parse_arxiv_xml on a feed of one entry whose id is the     *)
(* abs URL of an arXiv identifier and a version: identifiers of the new    *)
(* style and of the old style, archive/number.                             *)
(***************************************************************************)
Identifiers ==
    { <<"2", "3", "1", "1", ".", "1", "8", "7", "7", "5">>, <<"0", "7", "0", "4", ".", "0", "0", "0", "1">>, <<"h", "e", "p", "-", "t", "h", "/", "9", "9", "0", "1", "0", "0", "1">>, <<"m", "a", "t", "h", ".", "A", "G", "/", "0", "6", "0", "1", "0", "0", "1">>,
      <<"c", "s", ".", "C", "V", "/", "0", "6", "0", "1", "0", "0", "1">>, <<"s", "o", "l", "v", "-", "i", "n", "t", "/", "9", "7", "0", "7", "0", "0", "1">> }

IdVersions == { <<"1">>, <<"2">>, <<"1", "2">> }

AbsUrl(identifier, version) ==
    <<"h", "t", "t", "p", ":", "/", "/", "a", "r", "x", "i", "v", ".", "o", "r", "g", "/", "a",
        "b", "s", "/">> \o identifier \o <<"v">> \o version

IdEntry(identifier, version) ==
    Element("id", AbsUrl(identifier, version))
    \o <<EmptyEv("link", None, None, Some(AbsUrl(identifier, version)))>>

InitPaperId ==
    /\ tables = NoTables
    /\ written = [n \in TableNames |-> NoWrite]
    /\ last = NoCall
    /\ db_path = None
    /\ temp_files = NoFiles
    /\ calls = NoCalls
    /\ arxiv \in {ParseLocals(Feed(Entry(IdEntry(i, v)))) : i \in Identifiers, v \in IdVersions}

SpecPaperId == InitPaperId /\ [][NextFeed]_vars

(***************************************************************************)
(* The properties.                                                         *)
(***************************************************************************)
Min(a, b) == IF a < b THEN a ELSE b

\* the rows of a result stream, batch after batch
RECURSIVE StreamRows(_)
StreamRows(stream) ==
    IF stream = <<>> THEN <<>> ELSE Head(stream) \o StreamRows(Tail(stream))

\* every vector of the chunk list has the length of the first one
Uniform(chunks) ==
    \A i \in 1..Len(chunks) : Len(chunks[i].vector) = Len(chunks[1].vector)

\* the result r is (by id and text) a record of the chunk list
InList(r, chunks) ==
    \E j \in 1..Len(chunks) : chunks[j].id = r.id /\ chunks[j].text = r.text

\* two document ids that differ only in non-alphanumeric characters at the
\* same positions
SamePattern(d1, d2) ==
    /\ Len(d1) = Len(d2)
    /\ \A i \in 1..Len(d1) :
         d1[i] = d2[i] \/ (~is_alphanumeric(d1[i]) /\ ~is_alphanumeric(d2[i]))

\* C1: after a successful add_chunks of a non-empty chunk list with vectors of
\* one length, get_count for the same document id returns the length of the
\* list, repeated ids included: the count the command computes on the root
\* add_chunks left, and the count every later get_count returned while the
\* table was not written or dropped again.
C1_RoundTripCount ==
    /\ (last.op = "add_chunks" /\ last.ok /\ last.chunks # <<>> /\ Uniform(last.chunks))
         => vector_store_get_count(tables, last.doc)
              = [ok |-> TRUE, err |-> "", count |-> Len(last.chunks)]
    /\ (/\ last.op = "get_count"
        /\ written[TableName(last.doc)].valid
        /\ written[TableName(last.doc)].chunks # <<>>
        /\ Uniform(written[TableName(last.doc)].chunks))
         => last.ok /\ last.count = Len(written[TableName(last.doc)].chunks)

C1_Witness ==
    /\ last.op = "get_count" /\ last.ok /\ last.count = 2
    /\ written[TableName(last.doc)].valid
    /\ Len(written[TableName(last.doc)].chunks) = 2
    /\ written[TableName(last.doc)].chunks[1].id = written[TableName(last.doc)].chunks[2].id

\* C2: when a successful add_chunks with list S2 follows a successful
\* add_chunks with list S1 for the same table, the table holds exactly the
\* records of S2 in order, get_count returns |S2|, and every result search
\* can return is a record of S2 (so never one that is only in S1).
C2_DestructiveOverwrite ==
    (last.op = "add_chunks" /\ last.ok /\ last.replaced.valid)
      => /\ last.table \in DOMAIN tables
         /\ tables[last.table].rows = last.chunks
         /\ vector_store_get_count(tables, last.doc).ok
         /\ vector_store_get_count(tables, last.doc).count = Len(last.chunks)
         /\ \A q \in Queries, k \in TopKs :
              \A out \in vector_store_search(tables, last.doc, q, k) :
                \A i \in 1..Len(out.results) : InList(out.results[i], last.chunks)

C2_Witness ==
    /\ last.op = "add_chunks" /\ last.ok /\ last.replaced.valid
    /\ Len(last.replaced.chunks) > Len(last.chunks)
    /\ last.chunks # <<>>
    /\ \E i \in 1..Len(last.replaced.chunks) :
         \A j \in 1..Len(last.chunks) : last.replaced.chunks[i] # last.chunks[j]

\* C3: a table exists exactly while an add_chunks for its name succeeded and
\* no drop followed; and a command for a document id whose table does not
\* exist when it is called returns an error if it is search, get_count or
\* delete_document, and Ok(false) if it is has_document.
C3_NotFound ==
    /\ \A t \in TableNames : t \in DOMAIN tables <=> written[t].valid
    /\ (/\ last.op \in {"search", "get_count", "delete_document", "has_document"}
        /\ TableName(last.doc) \notin last.existed)
         => IF last.op = "has_document" THEN last.ok /\ ~last.found
            ELSE /\ ~last.ok
                 /\ last.err = IF last.op = "delete_document"
                               THEN "Failed to delete table" ELSE "Table not found"

C3_Witness ==
    /\ last.op = "delete_document" /\ ~last.ok
    /\ TableName(last.doc) \notin last.existed
    /\ DOMAIN tables # {}

\* C4: after a clear_all that returned success the root has no table, and
\* has_document returns Ok(false) for every document id; a clear_all on a
\* root without tables returns success.
C4_ClearAll ==
    last.op = "clear_all"
      => /\ last.ok => /\ DOMAIN tables = {}
                       /\ \A d \in RootDocIds :
                            vector_store_has_document(tables, d)
                              = [ok |-> TRUE, found |-> FALSE]
         /\ last.existed = {} => last.ok

C4_Witness ==
    /\ last.op = "clear_all" /\ last.ok
    /\ Cardinality(last.existed) = 2
    /\ tables = NoTables

\* C5: add_chunks with an empty chunk list succeeds and leaves a table of
\* dimensionality 384 with no rows: has_document is true, get_count is 0, and a
\* search with a query vector of that dimensionality returns an empty result
\* list and no error (on the root add_chunks left, and whenever search ran
\* while that table was in place).
C5_EmptyTable ==
    /\ (last.op = "add_chunks" /\ last.chunks = <<>>)
         => /\ last.ok /\ last.count = 0
            /\ vector_store_has_document(tables, last.doc) = [ok |-> TRUE, found |-> TRUE]
            /\ tables[TableName(last.doc)].dim = 384
            /\ vector_store_get_count(tables, last.doc)
                 = [ok |-> TRUE, err |-> "", count |-> 0]
            /\ \A q \in Queries, k \in TopKs :
                 Len(q) = 384 =>
                   \A out \in vector_store_search(tables, last.doc, q, k) :
                     out.ok /\ out.results = <<>>
    /\ (/\ last.op = "search"
        /\ written[TableName(last.doc)].valid
        /\ written[TableName(last.doc)].chunks = <<>>
        /\ Len(last.query) = 384)
         => last.ok /\ last.results = <<>>

C5_Witness ==
    /\ last.op = "search" /\ last.ok /\ last.results = <<>>
    /\ written[TableName(last.doc)].valid
    /\ written[TableName(last.doc)].chunks = <<>>
    /\ tables[TableName(last.doc)].dim = 384

\* C6: document ids that differ only in non-alphanumeric characters at the
\* same positions have one table name; after a successful add_chunks for one
\* of them get_count returns that call's count for each of them, and after a
\* successful delete_document for one of them has_document is false for each.
C6_NameCollision ==
    /\ \A d1, d2 \in RootDocIds : SamePattern(d1, d2) => TableName(d1) = TableName(d2)
    /\ (last.op = "add_chunks" /\ last.ok)
         => \A d \in RootDocIds :
              SamePattern(d, last.doc)
                => vector_store_get_count(tables, d)
                     = [ok |-> TRUE, err |-> "", count |-> Len(last.chunks)]
    /\ (last.op = "delete_document" /\ last.ok)
         => \A d \in RootDocIds :
              SamePattern(d, last.doc) => ~vector_store_has_document(tables, d).found

C6_Witness ==
    /\ last.op = "add_chunks" /\ last.ok
    /\ last.replaced.valid
    /\ last.replaced.doc # last.doc
    /\ Len(last.replaced.chunks) # Len(last.chunks)

\* C7: a search (top_k >= 1) of an existing table with n rows, with a query
\* vector of the table's dimensionality, returns no error and exactly
\* min(top_k, n) results, each (by id and text) a record of the chunk list of
\* the last add_chunks for the table.
C7_ResultSize ==
    (/\ last.op = "search"
     /\ TableName(last.doc) \in DOMAIN tables
     /\ Len(last.query) = tables[TableName(last.doc)].dim)
      => /\ last.ok
         /\ Len(last.results) = Min(last.top_k, Len(tables[TableName(last.doc)].rows))
         /\ written[TableName(last.doc)].valid
         /\ \A i \in 1..Len(last.results) :
              InList(last.results[i], written[TableName(last.doc)].chunks)

C7_Witness ==
    /\ last.op = "search" /\ last.ok
    /\ TableName(last.doc) \in DOMAIN tables
    /\ last.top_k > Len(tables[TableName(last.doc)].rows)
    /\ Len(last.results) = 2

\* C8: the results of a search are the rows of the result stream, one result
\* per row in the order of delivery through all batches (same id, text and
\* distance), and they are in ascending order of distance.
C8_ResultOrder ==
    (last.op = "search" /\ last.ok)
      => LET rows == StreamRows(last.stream)
         IN  /\ Len(last.results) = Len(rows)
             /\ \A i \in 1..Len(rows) :
                  /\ last.results[i].id = rows[i].id
                  /\ last.results[i].text = rows[i].text
                  /\ last.results[i].distance = rows[i].distance
             /\ \A i \in 1..Len(last.results) :
                  i < Len(last.results)
                    => F32Leq(last.results[i].distance, last.results[i + 1].distance)

C8_Witness ==
    /\ last.op = "search" /\ last.ok
    /\ Len(last.stream) = 2
    /\ Len(last.results) = 2
    /\ F32Less(last.results[1].distance, last.results[2].distance)

\* C9 as claimed: every result's score is 1 / (1 + distance) of its own
\* distance, lies in (0, 1], is 1 exactly when the distance is 0, and of two
\* results the one with the smaller distance has the strictly larger score.
C9_ScoreStrict ==
    last.op = "convert"
      => LET rows == StreamRows(last.stream)
         IN  /\ Len(last.results) = Len(rows)
             /\ \A i \in 1..Len(last.results) :
                  /\ last.results[i].distance = rows[i].distance
                  /\ last.results[i].score = F32Recip(F32AddOne(last.results[i].distance))
                  /\ F32Less(F32Zero, last.results[i].score)
                  /\ F32Leq(last.results[i].score, F32One)
                  /\ last.results[i].score = F32One <=> last.results[i].distance = F32Zero
             /\ \A i, j \in 1..Len(last.results) :
                  F32Less(last.results[i].distance, last.results[j].distance)
                    => F32Less(last.results[j].score, last.results[i].score)

\* C9, amended: every result's score is the f32 1.0 / (1.0 + distance) of its
\* own distance, lies in (0, 1], is 1 when the distance is 0 (and only for
\* distances up to 2^-24, which 1.0 + distance rounds away), and of two
\* results the one with the smaller distance has the larger or the same score.
C9_ScoreMonotone ==
    last.op = "convert"
      => LET rows == StreamRows(last.stream)
         IN  /\ Len(last.results) = Len(rows)
             /\ \A i \in 1..Len(last.results) :
                  /\ last.results[i].distance = rows[i].distance
                  /\ last.results[i].score = F32Recip(F32AddOne(last.results[i].distance))
                  /\ F32Less(F32Zero, last.results[i].score)
                  /\ F32Leq(last.results[i].score, F32One)
                  /\ last.results[i].distance = F32Zero => last.results[i].score = F32One
                  /\ last.results[i].score = F32One
                       => F32Leq(last.results[i].distance, [m |-> Half, e |-> 1 - 2 * SigBits])
             /\ \A i, j \in 1..Len(last.results) :
                  F32Less(last.results[i].distance, last.results[j].distance)
                    => F32Leq(last.results[j].score, last.results[i].score)

C9_Witness ==
    /\ last.op = "convert"
    /\ Len(last.results) = 2
    /\ F32Less(F32Zero, last.results[1].distance)
    /\ F32Less(last.results[1].distance, last.results[2].distance)
    /\ last.results[1].score = F32One
    /\ last.results[2].score = F32One

\* C10: in a search (top_k >= 1) of a table written with vectors of one
\* length, a result whose stored vector is the query vector has distance 0 and
\* score 1.0 and comes before every result with a non-zero distance; when
\* some stored vector is the query vector, the first result has distance 0.
C10_ExactMatch ==
    (last.op = "search" /\ last.ok /\ written[TableName(last.doc)].valid)
      => LET chunks == written[TableName(last.doc)].chunks
             rows == StreamRows(last.stream)
         IN  /\ Len(rows) = Len(last.results)
             /\ \A i \in 1..Len(last.results) :
                  chunks[rows[i].row].vector = last.query
                    => /\ last.results[i].id = chunks[rows[i].row].id
                       /\ last.results[i].distance = F32Zero
                       /\ last.results[i].score = F32One
                       /\ \A j \in 1..Len(last.results) :
                            last.results[j].distance # F32Zero => i < j
             /\ (\E r \in 1..Len(chunks) : chunks[r].vector = last.query)
                  => /\ last.results # <<>>
                     /\ last.results[1].distance = F32Zero
                     /\ last.results[1].score = F32One

C10_Witness ==
    /\ last.op = "search" /\ last.ok
    /\ last.query = <<1, 0>>
    /\ last.top_k = 2
    /\ Len(last.results) = 2
    /\ last.results[1].id = "a"
    /\ last.results[1].distance = F32Zero
    /\ last.results[1].score = F32One
    /\ last.results[2].id = "b"
    /\ last.results[2].distance = F32FromInt(2)

\* the i-th row holds the scalar columns of the i-th chunk record
SameRecords(rows, chunks) ==
    /\ Len(rows) = Len(chunks)
    /\ \A i \in 1..Len(chunks) :
         /\ rows[i].id = chunks[i].id
         /\ rows[i].text = chunks[i].text
         /\ rows[i].chunk_index = chunks[i].chunk_index
         /\ rows[i].text_length = chunks[i].text_length

\* C11: when add_chunks has returned, the document's table either holds one
\* row for every chunk record of the call, in order (and the records
\* themselves when their vectors have one length), or does not exist: a call
\* that returned success left the full table, a call that returned an error
\* left no table, and a table with only some of the rows is never left.
C11_AllOrNothing ==
    last.op = "add_chunks"
      => /\ last.ok => /\ last.table \in DOMAIN tables
                       /\ SameRecords(tables[last.table].rows, last.chunks)
                       /\ Uniform(last.chunks) => tables[last.table].rows = last.chunks
         /\ ~last.ok => last.table \notin DOMAIN tables
         /\ last.table \in DOMAIN tables
              => Len(tables[last.table].rows) = Len(last.chunks)

C11_Witness ==
    /\ last.op = "add_chunks" /\ ~last.ok
    /\ Len(last.chunks) = 3
    /\ last.table \in last.existed
    /\ last.table \notin DOMAIN tables

\* C14 as claimed: add_chunks with a non-empty chunk list in which some
\* record's vector length differs from the first record's returns an error
\* and leaves no table for the document.
C14_MixedRejected ==
    (last.op = "add_chunks" /\ last.chunks # <<>> /\ ~Uniform(last.chunks))
      => ~last.ok /\ last.table \notin DOMAIN tables

\* the case of C14 that is accepted: vectors of 2, 1 and 3 values, 6 = 3 * 2
\* values in all, stored as three rows of 2 values cut from the flat buffer
C14_Witness ==
    /\ last.op = "add_chunks" /\ last.ok
    /\ Len(last.chunks) = 3
    /\ Len(last.chunks[1].vector) = 2
    /\ Len(last.chunks[2].vector) = 1
    /\ Len(last.chunks[3].vector) = 3
    /\ tables[last.table].dim = 2
    /\ tables[last.table].rows[2].vector = <<0, 1>>
    /\ tables[last.table].rows[3].vector = <<1, 0>>

\* C13: add_chunks for a document id whose table does not exist succeeds
\* (with vectors of one length) and creates the table with the call's
\* records, although its preliminary drop failed; delete_document for a
\* document id whose table does not exist returns an error and leaves every
\* table of the root as it was.
C13_AsymmetricDrop ==
    [][ /\ (/\ last'.op = "add_chunks"
            /\ TableName(last'.doc) \notin DOMAIN tables
            /\ Uniform(last'.chunks))
             => /\ ~DropTable(tables, TableName(last'.doc)).ok
                /\ last'.ok
                /\ TableName(last'.doc) \in DOMAIN tables'
                /\ tables'[TableName(last'.doc)].rows = last'.chunks
        /\ (last'.op = "delete_document" /\ TableName(last'.doc) \notin DOMAIN tables)
             => /\ ~last'.ok
                /\ last'.err = "Failed to delete table"
                /\ tables' = tables ]_vars

C13_Witness ==
    /\ last.op = "add_chunks" /\ last.ok
    /\ last.table \notin last.existed
    /\ last.existed # {}
    /\ last.chunks # <<>>
    /\ last.table \in DOMAIN tables

\* C15: a search of an existing table with a query vector whose length is not
\* the table's dimensionality returns an error and no results, and leaves
\* every table as it was.
C15_QueryDimension ==
    [][ (/\ last'.op = "search"
         /\ TableName(last'.doc) \in DOMAIN tables
         /\ Len(last'.query) # tables[TableName(last'.doc)].dim)
          => /\ ~last'.ok
             /\ last'.err = "Search failed"
             /\ last'.results = <<>>
             /\ tables' = tables ]_vars

C15_Witness ==
    /\ last.op = "search" /\ ~last.ok
    /\ last.table \in DOMAIN tables
    /\ Len(last.query) = 2
    /\ tables[last.table].dim = DefaultDim

\* C16: after a successful add_chunks for a table, and until the table is
\* written or dropped again, has_document returns true, get_count returns the
\* number of records written, and search returns no error for a query of the
\* table's dimensionality and only records of the written list; the same
\* holds of the three reads on the root add_chunks left.
C16_ReadYourWrite ==
    /\ (last.op = "add_chunks" /\ last.ok)
         => /\ vector_store_has_document(tables, last.doc).found
            /\ vector_store_get_count(tables, last.doc).ok
            /\ vector_store_get_count(tables, last.doc).count = last.count
            /\ last.count = Len(last.chunks)
    /\ (last.op \in {"has_document", "get_count", "search"}
          /\ written[TableName(last.doc)].valid)
         => LET w == written[TableName(last.doc)]
            IN  /\ last.op = "has_document" => last.ok /\ last.found
                /\ last.op = "get_count" => last.ok /\ last.count = Len(w.chunks)
                /\ last.op = "search"
                     => /\ Len(last.query) = VectorDim(w.chunks) => last.ok
                        /\ \A i \in 1..Len(last.results) : InList(last.results[i], w.chunks)
                        /\ (last.ok /\ w.chunks # <<>>) => last.results # <<>>

C16_Witness ==
    /\ last.op = "has_document" /\ last.ok /\ last.found
    /\ written[TableName(last.doc)].valid
    /\ Len(written[TableName(last.doc)].chunks) = 2

\* C20: search, get_count and has_document, whether they return a result or
\* an error, leave the set of tables of the root and the rows of every table
\* as they were.
C20_ReadsDoNotMutate ==
    [][ last'.op \in {"search", "get_count", "has_document"} => tables' = tables ]_vars

C20_Witness ==
    /\ last.op = "search" /\ ~last.ok
    /\ last.existed = DOMAIN tables
    /\ Cardinality(DOMAIN tables) = 2
    /\ \E t \in DOMAIN tables : tables[t].rows # <<>>

\* C19: the result of add_chunks, search, has_document, delete_document,
\* clear_all and get_count, and the root the command leaves, are those the
\* command computes from its arguments and the tables of its root alone,
\* whatever path initialize has recorded and whether it was called at all;
\* no command but initialize changes the recorded path, and initialize
\* changes no table.
C19_NoGlobalConfiguration ==
    [][ /\ last'.op = "initialize" => tables' = tables
        /\ last'.op # "initialize" => db_path' = db_path
        /\ last'.op = "add_chunks"
             => LET out == vector_store_add_chunks(tables, last'.doc, last'.chunks)
                IN  /\ tables' = out.tables
                    /\ last'.ok = out.ok /\ last'.err = out.err /\ last'.count = out.count
        /\ last'.op = "search"
             => /\ tables' = tables
                /\ [ok |-> last'.ok, err |-> last'.err,
                    results |-> last'.results, stream |-> last'.stream]
                     \in vector_store_search(tables, last'.doc, last'.query, last'.top_k)
        /\ last'.op = "has_document"
             => /\ tables' = tables
                /\ [ok |-> last'.ok, found |-> last'.found]
                     = vector_store_has_document(tables, last'.doc)
        /\ last'.op = "delete_document"
             => LET out == vector_store_delete_document(tables, last'.doc)
                IN  tables' = out.tables /\ last'.ok = out.ok /\ last'.err = out.err
        /\ last'.op = "clear_all"
             => LET out == vector_store_clear_all(tables)
                IN  tables' = out.tables /\ last'.ok = out.ok /\ last'.err = out.err
        /\ last'.op = "get_count"
             => /\ tables' = tables
                /\ [ok |-> last'.ok, err |-> last'.err, count |-> last'.count]
                     = vector_store_get_count(tables, last'.doc) ]_vars

C19_Witness ==
    /\ db_path = Some("other")
    /\ last.op = "get_count" /\ last.ok /\ last.count = 1

\* the drops and creations of table t that succeeded, in order
LogOn(t) == SelectSeq(calls.log, LAMBDA e : e.table = t)

\* t is there as the last entry of its history says: made and not dropped since
InPlace(t) == LogOn(t) # <<>> /\ LogOn(t)[Len(LogOn(t))].step = "create"

\* C12: a clear_all that has returned an error names the listed table whose
\* drop failed; it dropped every table listed before that one, and they are
\* absent; it dropped no table listed after that one, and they are present.
\* A clear_all that has returned success dropped every listed table.
C12_ClearAllAborts ==
    LET d == calls.of["d"]
    IN  (d.op = "clear_all" /\ d.pc = "done")
          => /\ d.ok => d.listing = <<>>
             /\ ~d.ok
                  => /\ d.listing # <<>>
                     /\ d.table = Head(d.listing)
                     /\ d.err = "Failed to delete table"
                     /\ \A i \in 1..Len(d.swept) :
                          /\ \E j \in 1..Len(calls.log) :
                               calls.log[j] = [caller |-> "d", step |-> "drop",
                                               table |-> d.swept[i]]
                          /\ d.swept[i] \notin DOMAIN tables
                     /\ \A i \in 2..Len(d.listing) :
                          /\ \A j \in 1..Len(calls.log) :
                               calls.log[j].table = d.listing[i]
                                 => calls.log[j].caller # "d"
                          /\ d.listing[i] \in DOMAIN tables

C12_Witness ==
    LET d == calls.of["d"]
    IN  /\ d.op = "clear_all" /\ d.pc = "done" /\ ~d.ok
        /\ Len(d.swept) = 1
        /\ Len(d.listing) = 2
        /\ d.swept[1] \notin DOMAIN tables
        /\ d.listing[2] \in DOMAIN tables

\* C17: when an add_chunks and a delete_document or clear_all have both
\* returned, the table of the add_chunks is either absent or holds exactly
\* the chunk list of the add_chunks, which then returned success: it is
\* there when the creation was the last of the drops and creations of that
\* table to succeed, and absent when a drop was.
C17_LastDestructiveWins ==
    LET w == calls.of["w"]
        d == calls.of["d"]
    IN  (/\ w.op = "add_chunks" /\ w.pc = "done"
         /\ d.op \in {"delete_document", "clear_all"} /\ d.pc = "done")
          => /\ w.table \in DOMAIN tables
                  => /\ w.ok
                     /\ tables[w.table].rows = w.chunks
                     /\ tables[w.table].dim = VectorDim(w.chunks)
             /\ w.table \in DOMAIN tables <=> InPlace(w.table)
             /\ InPlace(w.table) => LogOn(w.table)[Len(LogOn(w.table))].caller = "w"

C17_Witness ==
    LET w == calls.of["w"]
        d == calls.of["d"]
        hist == LogOn(w.table)
    IN  /\ w.op = "add_chunks" /\ w.pc = "done" /\ w.ok /\ w.chunks # <<>>
        /\ d.op = "clear_all" /\ d.pc = "done" /\ d.ok
        /\ w.table \notin DOMAIN tables
        /\ Len(hist) = 4
        /\ hist[3] = [caller |-> "w", step |-> "create", table |-> w.table]
        /\ hist[4] = [caller |-> "d", step |-> "drop", table |-> w.table]

\* the versions table t has had: the first one, if t was there at the start,
\* and the one made by the add_chunks of "w"
Versions(t) ==
    (IF \E j \in 1..Len(calls.log) :
          calls.log[j] = [caller |-> "setup", step |-> "create", table |-> t]
     THEN {TableOf(OldChunks)} ELSE {})
    \cup
    (IF \E j \in 1..Len(calls.log) :
          calls.log[j] = [caller |-> "w", step |-> "create", table |-> t]
     THEN {[dim |-> VectorDim(calls.of["w"].chunks), rows |-> calls.of["w"].chunks]}
     ELSE {})

C21_NoTempFileLeft ==
    (\A c \in DOMAIN calls.of : calls.of[c].op = "add_chunks" /\ calls.of[c].pc = "done")
      => temp_files = NoFiles

\* the case of C21 that leaves a file: a call whose create_table failed has
\* returned its error, and its temporary file is still in the root
C21_Witness ==
    /\ \A c \in DOMAIN calls.of : calls.of[c].op = "add_chunks" /\ calls.of[c].pc = "done"
    /\ \E c \in DOMAIN calls.of :
         /\ ~calls.of[c].ok
         /\ calls.of[c].err = "Failed to create table"
         /\ calls.of[c].table \in DOMAIN temp_files
         /\ temp_files[calls.of[c].table].rows = calls.of[c].chunks

\* C28 as claimed: of two concurrent add_chunks calls for one table, a call
\* that has returned success has created the table from exactly its own
\* chunk records.
C28_OwnRecordsOnly ==
    \A c \in DOMAIN calls.of :
        (calls.of[c].op = "add_chunks" /\ calls.of[c].pc = "done" /\ calls.of[c].ok)
          => calls.of[c].imported.rows = calls.of[c].chunks

\* the case of C28 that fails: a call returned success for a table it made
\* of the other call's records
C28_Witness ==
    /\ calls.of["w1"].pc = "done" /\ calls.of["w1"].ok
    /\ calls.of["w2"].pc = "done" /\ ~calls.of["w2"].ok
    /\ calls.of["w1"].chunks # calls.of["w2"].chunks
    /\ calls.of["w1"].imported.rows = calls.of["w2"].chunks
    /\ calls.of["w1"].table \in DOMAIN tables
    /\ tables[calls.of["w1"].table].rows = calls.of["w2"].chunks

\* C24 as claimed: when add_chunks fails in the construction of the batch,
\* the table stored before the call for that document id is still present
\* with its previous rows.
C24_EncodeBeforeDrop ==
    (/\ last.op = "add_chunks" /\ ~last.ok
     /\ last.err \in {"Failed to create vector array", "Failed to create record batch"}
     /\ last.replaced.valid)
      => /\ last.table \in DOMAIN tables
         /\ tables[last.table].rows = last.replaced.chunks

\* the case of C24 that loses the table: the call failed in the construction
\* of the batch, the table it was to replace held rows, and it is gone
C24_Witness ==
    /\ last.op = "add_chunks" /\ ~last.ok
    /\ last.err = "Failed to create record batch"
    /\ last.replaced.valid /\ last.replaced.chunks # <<>>
    /\ last.table \in last.existed
    /\ last.table \notin DOMAIN tables
    /\ ~written[last.table].valid

\* C25: the table name a command derives from a document id is "doc_"
\* followed by the id with every alphanumeric character kept in place and
\* every other character replaced by one '_': its length is 4 plus the id's,
\* it holds only alphanumerics and '_', and add_chunks, search, has_document,
\* delete_document and get_count all act on the table of that one name.
C25_TableName ==
    last.op \in {"add_chunks", "search", "has_document", "delete_document", "get_count"}
      => LET id == last.doc
             n == last.table
         IN  /\ Len(n) = 4 + Len(id)
             /\ SubSeq(n, 1, 4) = <<"d", "o", "c", "_">>
             /\ \A i \in 1..Len(id) :
                    n[4 + i] = IF id[i] \in Alphanumeric THEN id[i] ELSE "_"
             /\ \A j \in 1..Len(n) : n[j] \in Alphanumeric \cup {"_"}
             /\ DOMAIN tables \subseteq {n}
             /\ (last.op = "add_chunks" /\ last.ok) => n \in DOMAIN tables
             /\ (last.op = "delete_document" /\ last.ok)
                    => n \in last.existed /\ n \notin DOMAIN tables
             /\ last.op = "has_document" => (last.found <=> n \in DOMAIN tables)
             /\ last.op = "get_count" => (last.ok <=> n \in DOMAIN tables)
             /\ last.op = "search"
                    => (last.err = "Table not found" <=> n \notin DOMAIN tables)

\* a case of C25: an id of alphanumeric and other characters, whose table
\* add_chunks made and get_count then found
C25_Witness ==
    /\ last.op = "get_count" /\ last.ok
    /\ last.doc = <<"Z", ".">>
    /\ last.table = <<"d", "o", "c", "_", "Z", "_">>
    /\ written[last.table].valid /\ written[last.table].doc = last.doc

\* C26: a step of add_chunks or of delete_document, succeeding or failing
\* and whatever the other callers are at, leaves every table whose name is
\* not the one derived from its document id as it was: present or absent,
\* and with the same rows.
C26_Isolation ==
    [][\A c \in DOMAIN calls.of :
          (/\ calls.of[c]' # calls.of[c]
           /\ calls.of[c]'.op \in {"add_chunks", "delete_document"})
            => \A t \in (DOMAIN tables \cup DOMAIN tables') \ {calls.of[c]'.table} :
                   /\ t \in DOMAIN tables
                   /\ t \in DOMAIN tables'
                   /\ tables'[t] = tables[t]]_vars

\* a case of C26: a delete_document has dropped its table and an add_chunks
\* has made another, a third document's table is there with its rows, and a
\* search is open on the table that was dropped
C26_Witness ==
    LET w == calls.of["w"]
        d == calls.of["d"]
    IN  /\ d.op = "delete_document" /\ d.pc = "done" /\ d.ok
        /\ w.op = "add_chunks" /\ w.pc = "done" /\ w.ok /\ w.chunks # OldChunks
        /\ w.table # d.table
        /\ d.table \notin DOMAIN tables
        /\ tables[w.table].rows = w.chunks
        /\ \E t \in DOMAIN tables \ {w.table} : tables[t] = TableOf(OldChunks)
        /\ calls.of["r"].op = "search" /\ calls.of["r"].pc # "done"

\* C27 as claimed, for search: a search succeeds exactly when the most recent
\* call on its table (an add_chunks or delete_document for any id of that
\* table name, or a clear_all) was an add_chunks.
C27_SearchExactly ==
    last.op = "search" => (last.ok <=> written[last.table].valid)

\* C27: in a history of add_chunks, delete_document and clear_all calls,
\* has_document(id) is true, and get_count(id) succeeds, exactly when the
\* most recent of the calls on the table name of id was an add_chunks;
\* search(id, ..) fails with "Table not found" exactly in the other states,
\* and succeeds exactly when moreover the query has the dimension of the
\* table that add_chunks made.
C27_Lifecycle ==
    /\ \A d \in RootDocIds :
         LET recent == written[TableName(d)]
         IN  /\ vector_store_has_document(tables, d).found <=> recent.valid
             /\ vector_store_get_count(tables, d).ok <=> recent.valid
             /\ \A q \in RootQueries, k \in TopKs :
                  \A out \in vector_store_search(tables, d, q, k) :
                     /\ out.err = "Table not found" <=> ~recent.valid
                     /\ out.ok <=> (recent.valid /\ Len(q) = VectorDim(recent.chunks))
    /\ last.op = "has_document" => (last.found <=> written[last.table].valid)
    /\ last.op = "get_count" => (last.ok <=> written[last.table].valid)
    /\ last.op = "search"
         => /\ last.err = "Table not found" <=> ~written[last.table].valid
            /\ last.ok <=> /\ written[last.table].valid
                           /\ Len(last.query) = VectorDim(written[last.table].chunks)

\* a case of C27: has_document finds the table that the most recent call on
\* it, an add_chunks for another id of the same table name, made, while the
\* table of another document has been deleted
C27_Witness ==
    /\ last.op = "has_document" /\ last.found
    /\ written[last.table].valid
    /\ written[last.table].doc # last.doc
    /\ written[last.table].chunks # <<>>
    /\ \E t \in TableNames \ {last.table} : ~written[t].valid /\ t \notin DOMAIN tables

\* the case of C27 in which search fails on a table that is there: the most
\* recent call on the table was an add_chunks of no records, which made a
\* table of 384 dimensions, and the query has 2
C27_SearchWitness ==
    /\ last.op = "search" /\ ~last.ok /\ last.err = "Search failed"
    /\ written[last.table].valid /\ written[last.table].chunks = <<>>
    /\ last.table \in DOMAIN tables

\* C23: format_category returns the display name of every code of the
\* category table; for any other code it returns the part of the code before
\* its first '.', or the whole code when it has no '.', in upper case; for
\* the empty string it returns the empty string.
C23_FormatCategory ==
    arxiv.op = "format_category"
      => LET code == arxiv.category
             dots == {i \in 1..Len(code) : code[i] = "."}
             cut == IF dots = {} THEN Len(code) + 1
                    ELSE CHOOSE i \in dots : \A j \in dots : i <= j
             listed == {i \in DOMAIN CategoryInserts : CategoryInserts[i][1] = code}
         IN  /\ listed # {}
                  => \A i \in listed : arxiv.formatted = CategoryInserts[i][2]
             /\ listed = {}
                  => /\ Len(arxiv.formatted) = cut - 1
                     /\ \A i \in 1..(cut - 1) :
                          \/ /\ \E k \in 1..26 : code[i] = LowerCase[k]
                             /\ \E k \in 1..26 : /\ code[i] = LowerCase[k]
                                                 /\ arxiv.formatted[i] = UpperCase[k]
                          \/ /\ \A k \in 1..26 : code[i] # LowerCase[k]
                             /\ arxiv.formatted[i] = code[i]
             /\ code = <<>> => arxiv.formatted = <<>>
             /\ code = <<"c", "s", ".", "L", "G">>
                  => arxiv.formatted = <<"M", "a", "c", "h", "i", "n", "e", " ",
                                         "L", "e", "a", "r", "n", "i", "n", "g">>
             /\ code = <<"h", "e", "p", "-", "t", "h">>
                  => arxiv.formatted[1] = "H" /\ Len(arxiv.formatted) = 28

\* a case of C23: a code that is not in the table, though the part before
\* its first '.' and its upper-cased form are the start of codes that are
C23_Witness ==
    /\ arxiv.op = "format_category"
    /\ arxiv.category = <<"c", "s", ".", "a", "i">>
    /\ arxiv.formatted = <<"C", "S">>

\* the members of a set of numbers, in increasing order
RECURSIVE Sorted(_)
Sorted(S) ==
    IF S = {} THEN <<>>
    ELSE LET m == CHOOSE x \in S : \A y \in S : x <= y
         IN  <<m>> \o Sorted(S \ {m})

\* the positions of the entry start tags and entry end tags of a feed
EntryStarts(xml) ==
    Sorted({i \in 1..Len(xml) : xml[i].kind = "Start" /\ xml[i].name = "entry"})

EntryEnds(xml) ==
    Sorted({i \in 1..Len(xml) : xml[i].kind = "End" /\ xml[i].name = "entry"})

\* C22: parse_arxiv_xml returns Ok with one paper for every entry element of
\* the feed, in the order of the entries, and no paper for a feed of no
\* entries; the paper of an entry is the paper that the entry alone gives, so
\* the elements of the feed outside the entries give no paper and change no
\* field of a paper.  It returns an error only for a text with an entity that
\* XML does not define.
C22_OnePaperPerEntry ==
    LET xml == arxiv.xml
        starts == EntryStarts(xml)
        ends == EntryEnds(xml)
    IN  /\ arxiv.op = "parsed"
             => /\ Len(arxiv.papers) = Len(starts)
                /\ \A k \in 1..Len(starts) :
                     LET alone == parse_arxiv_xml(SubSeq(xml, starts[k], ends[k]))
                     IN  alone.ok /\ alone.papers = <<arxiv.papers[k]>>
                /\ arxiv.papers = parse_arxiv_xml(xml).papers
                /\ \A i \in 1..Len(xml) : unescape(xml[i].text).ok
        /\ arxiv.op = "failed"
             => /\ xml[arxiv.pos].kind = "Text"
                /\ ~unescape(xml[arxiv.pos].text).ok
                /\ ~parse_arxiv_xml(xml).ok

\* a case of C22: a feed with its own title, id, author, categories and pdf
\* link before, between and after two entries that differ
C22_Witness ==
    /\ arxiv.op = "parsed"
    /\ arxiv.xml = Feed(FeedLevel \o Entry(SparseEntry) \o FeedLevel \o Entry(FullEntry)
                        \o FeedLevel)
    /\ Len(arxiv.papers) = 2
    /\ arxiv.papers[1].id = <<"h", "e", "p", "-", "t", "h", "/", "9", "9", "0", "1", "0", "0", "1">>
    /\ arxiv.papers[2].id = <<"2", "3", "1", "1", ".", "1", "8", "7", "7", "5">>
    /\ arxiv.papers[2].title = <<"G", "P", "T", "-", "4", " ", " ", "R", "e", "p", "o", "r", "t">>
    /\ arxiv.papers[2].published_date = <<"2", "0", "2", "3", "-", "1", "1", "-", "3", "0">>

\* a case of C22: a feed of no entry
C22_EmptyFeed ==
    arxiv.op = "parsed" /\ arxiv.xml = Feed(FeedLevel) /\ arxiv.papers = <<>>

\* C29: the authors, the categories, the category and the pdf link of every
\* paper that parse_arxiv_xml returns are those of the author names, the
\* category terms, the primary category and the pdf link inside its own entry
\* ("Unknown", no categories and the link made of the id when the entry has
\* none): nothing is taken from an earlier entry or from outside the entries.
C29_PerEntryState ==
    arxiv.op = "parsed"
      => LET xml == arxiv.xml
             starts == EntryStarts(xml)
             ends == EntryEnds(xml)
         IN  \A k \in 1..Len(arxiv.papers) :
               LET paper == arxiv.papers[k]
                   inside == starts[k]..ends[k]
                   cat_at == Sorted({i \in inside : /\ xml[i].kind = "Empty"
                                                    /\ xml[i].name = "category"
                                                    /\ xml[i].term # None})
                   cats == [j \in 1..Len(cat_at) |-> xml[cat_at[j]].term[1]]
                   name_at == Sorted({i \in inside : /\ xml[i].kind = "End"
                                                     /\ xml[i].name = "name"})
                   names == [j \in 1..Len(name_at) |-> trim(xml[name_at[j] - 1].text)]
                   prim_at == Sorted({i \in inside : /\ xml[i].kind = "Empty"
                                                     /\ xml[i].name = "arxiv:primary_category"
                                                     /\ xml[i].term # None})
                   pdf_at == Sorted({i \in inside : /\ xml[i].kind = "Empty"
                                                    /\ xml[i].name = "link"
                                                    /\ xml[i].title = Some(<<"p", "d", "f">>)
                                                    /\ xml[i].href # None})
                   main == IF prim_at # <<>> THEN xml[prim_at[Len(prim_at)]].term[1]
                           ELSE IF cats # <<>> THEN cats[1]
                           ELSE Unknown
               IN  /\ paper.categories = cats
                   /\ paper.authors = IF names = <<>> THEN Unknown
                                      ELSE join(names, <<",", " ">>)
                   /\ paper.category = format_category(main)
                   /\ paper.pdf_url = IF pdf_at # <<>> THEN xml[pdf_at[Len(pdf_at)]].href[1]
                                      ELSE PdfFallback(paper.id)
                   /\ paper.download_url = paper.pdf_url

\* a case of C29: an entry of no element comes after an entry with authors,
\* categories, a primary category and a pdf link, and after feed-level
\* elements of those names
C29_Witness ==
    /\ arxiv.op = "parsed"
    /\ arxiv.xml = Feed(Entry(FullEntry) \o FeedLevel \o Entry(<<>>))
    /\ arxiv.papers[1].authors = <<"O", "p", "e", "n", "A", "I", " ", "T", "e", "a", "m", ",", " ", "R", ".", " ", "S", ".">>
    /\ arxiv.papers[1].categories = <<<<"c", "s", ".", "C", "L">>, <<"c", "s", ".", "A", "I">>>>
    /\ arxiv.papers[1].category = <<"C", "o", "m", "p", "u", "t", "a", "t", "i", "o", "n", " ", "a", "n", "d", " ", "L", "a",
        "n", "g", "u", "a", "g", "e">>
    /\ arxiv.papers[1].pdf_url = <<"h", "t", "t", "p", ":", "/", "/", "a", "r", "x", "i", "v", ".", "o", "r", "g", "/", "p",
        "d", "f", "/", "2", "3", "1", "1", ".", "1", "8", "7", "7", "5", "v", "2", ".", "p", "d",
        "f">>
    /\ arxiv.papers[2].authors = <<"U", "n", "k", "n", "o", "w", "n">>
    /\ arxiv.papers[2].categories = <<>>
    /\ arxiv.papers[2].category = <<"U", "N", "K", "N", "O", "W", "N">>
    /\ arxiv.papers[2].pdf_url = <<"h", "t", "t", "p", "s", ":", "/", "/", "a", "r", "x", "i", "v", ".", "o", "r", "g", "/",
        "p", "d", "f", "/", ".", "p", "d", "f">>

Digits == {"0", "1", "2", "3", "4", "5", "6", "7", "8", "9"}

\* C30 as claimed: the id of the paper of an entry whose id element is
\* .../abs/<identifier>v<N> is <identifier>: the text after "/abs/" without
\* the version suffix, the last 'v' and the digits after it.
C30_PaperId ==
    arxiv.op = "parsed"
      => \A k \in 1..Len(arxiv.papers) :
           LET xml == arxiv.xml
               text == xml[EntryStarts(xml)[k] + 2].text
               from == CHOOSE i \in 6..Len(text) :
                         /\ SubSeq(text, i - 5, i - 1) = <<"/", "a", "b", "s", "/">>
                         /\ \A j \in 6..(i - 1) : SubSeq(text, j - 5, j - 1) # <<"/", "a", "b", "s", "/">>
               vs == {i \in from..Len(text) :
                        /\ text[i] = "v"
                        /\ i < Len(text)
                        /\ \A j \in (i + 1)..Len(text) : text[j] \in Digits}
               suffix == CHOOSE i \in vs : \A j \in vs : i <= j
           IN  arxiv.papers[k].id = SubSeq(text, from, suffix - 1)

\* the case of C30 that fails: an identifier of the old style whose archive
\* name has a 'v' in it
C30_Witness ==
    /\ arxiv.op = "parsed"
    /\ arxiv.xml = Feed(Entry(IdEntry(<<"s", "o", "l", "v", "-", "i", "n", "t", "/", "9", "7", "0", "7", "0", "0", "1">>, <<"2">>)))
    /\ Len(arxiv.papers) = 1
    /\ arxiv.papers[1].id = <<"s", "o", "l">>
    /\ arxiv.papers[1].pdf_url = <<"h", "t", "t", "p", "s", ":", "/", "/", "a", "r", "x", "i", "v", ".", "o", "r", "g", "/",
        "p", "d", "f", "/", "s", "o", "l", ".", "p", "d", "f">>

====
